---- MODULE Spec2Model ----
(***************************************************************************)
(* State-machine model of the weather monitoring pipeline:                 *)
(*   - AlertSystem (src/src/alerts.py): the consecutive-threshold detector *)
(*     and the alert configuration endpoint of src/main.py;                *)
(*   - WeatherService (src/src/weather_service.py): get_weather_data with  *)
(*     its TTL cache, semaphore gate, backoff retry and 429 recursion.     *)
(*   - the scheduler of src/main.py: fetch_weather_data, the per-city task  *)
(*     fetch_city_weather and the shutdown handler.                        *)
(*   - DataProcessor.determine_dominant_weather                            *)
(*     (src/src/data_processor.py): the condition scorer, a function of    *)
(*     the records and of the clock it reads.                              *)
(* The specifications share the variables: SpecAlert drives the detector   *)
(* with arbitrary readings and configuration updates, SpecFetch runs       *)
(* concurrent get_weather_data calls against a nondeterministic upstream,  *)
(* SpecCycle runs the scheduler's cycles over the cities, SpecScore        *)
(* applies the scorer to bounded sequences of records, SpecSession lets    *)
(* tasks open and close the service's HTTP session, SpecCache drives the   *)
(* response cache alone with more cities than it holds, SpecFetchLive is   *)
(* SpecFetch under a fair event loop, SpecTasks runs the tasks of one      *)
(* cycle through the shared session, SpecRefetch runs the scheduler and    *)
(* the background fetches of add_city through the cache.                   *)
(***************************************************************************)
EXTENDS Integers, Sequences, FiniteSets, TLC

(* ------------------------------ bounds -------------------------------- *)

\* evaluations of check_temperature_alert in one behaviour
MaxEvals == 4
\* calls of update_alert_config in one behaviour
MaxUpdates == 1

\* concurrent get_weather_data calls in one behaviour
NumCalls == 3
\* permits of the request gate; the code's asyncio.Semaphore(10) scaled down
\* so that a fan-out of NumCalls > GateCapacity callers is explored
GateCapacity == 2
\* capacity of the response cache; the code's TTLCache(maxsize=100) scaled
\* down so that capacity eviction is explored with the cities below
MaxSize == 1
\* last tick of the clock
MaxTime == 2
\* requests that upstream answers with 429 or fails in one behaviour
MaxFaults == 3
\* iterations of the scheduler loop in one behaviour
MaxCycles == 2
\* longest sequence of records handed to the scorer
MaxRecords == 3
\* tasks that use the session concurrently
NumTasks == 2
\* session operations (ensure_session, close, __aexit__) in one behaviour
MaxOps == 4
\* cache lookups and stores in one behaviour of the cache alone
MaxCacheOps == 4
\* fetch_city_weather tasks of one cycle that share the session
NumCityTasks == 4
\* rows written to the weather_records table
MaxRows == 3

(* ------------------------- program constants -------------------------- *)

\* TTLCache(ttl=300): 300 s, in clock ticks of 300 s
TTL == 1
\* backoff.on_exception(..., max_tries=3)
max_tries == 3

\* settings.UPDATE_INTERVAL: 300 s, in clock ticks of 300 s
UPDATE_INTERVAL == 1

\* settings.ALERT_TEMPERATURE_THRESHOLD default
DefaultThreshold == 35
\* settings.CONSECUTIVE_ALERTS_REQUIRED default
DefaultRequired == 2

\* monitored cities (a subset of settings.CITIES)
Cities == {"Delhi", "Mumbai"}
\* temperatures around the thresholds (the code compares floats; whole
\* degrees suffice to land below, at and above every threshold explored)
Temps == (DefaultThreshold - 1) .. (DefaultThreshold + 1)
\* thresholds the environment or update_alert_config may set (gt=0)
ThresholdChoices == {DefaultThreshold, DefaultThreshold + 1}
\* consecutive_required values (ge=1, le=5 in AlertConfig)
RequiredChoices == {1, DefaultRequired, DefaultRequired + 1}

VARIABLES
    \* settings object (src/src/config.py), mutable at run time
    ALERT_TEMPERATURE_THRESHOLD,
    CONSECUTIVE_ALERTS_REQUIRED,
    \* AlertSystem fields (src/src/alerts.py)
    temperature_threshold,
    consecutive_required,
    alert_counts,
    \* observation of the detector: one record per evaluation, in order,
    \* with the reading and the value check_temperature_alert returned
    evals,
    \* outcome of the most recent send_alert call
    mail,
    \* number of update_alert_config calls so far
    configUpdates,
    \* the clock (time.monotonic of the TTLCache), in ticks
    now,
    \* WeatherService fields (src/src/weather_service.py): the TTLCache as
    \* its entries in eviction order, the session, the semaphore's value
    cache,
    session,
    rate_limit,
    \* number of requests answered with 429 or failed so far
    faults,
    \* one get_weather_data call per caller: where it stands, its argument,
    \* the tries counter of each backoff wrapper on its stack (one per
    \* invocation, the innermost last) and what it returned or raised
    pc,
    callCity,
    frames,
    result,
    \* observation of upstream: the answers to the requests of each call,
    \* in order
    hist,
    \* observation of the cache: per city the most recent successful
    \* upstream result with its time, and whether the entry stored for it
    \* was since evicted for capacity while unexpired
    lastOK,
    evicted,
    \* the scheduler (src/main.py): number of loop iterations started, where
    \* the loop stands, and the time its current sleep ends
    cycle,
    loop,
    wake,
    \* the fetch_city_weather task of each city in the current cycle
    task,
    \* the database tables weather_records and weather_alerts
    weather_records,
    weather_alerts,
    \* the logger.error calls, as (cycle, source) pairs
    log,
    \* where the application's shutdown stands
    shutdown,
    \* observation of the current cycle: how get_cities ended, what each
    \* city's get_weather_data call came to, the operations each task has
    \* carried out in order, and the times the cycle started and its work
    \* ended
    listed,
    fetched,
    steps,
    cycleStart,
    workEnd,
    \* the scorer: the records it is called with, the value datetime.utcnow()
    \* has during the call, and what the call came to; previous is what an
    \* earlier call with the same records came to
    weather_records_in,
    utcnow,
    analysis,
    previous,
    \* what get_bulk_weather_data came to, the calls being its tasks
    bulk,
    \* users of the session: where each task stands in close() or
    \* __aexit__, and the session operations that have returned, in order
    sessPc,
    sessLog,
    \* observation of the cache: operations so far, and per key the
    \* operation that inserted it and the one that last inserted or read it
    cacheOps,
    insertedAt,
    usedAt,
    \* the fetch_city_weather tasks of one cycle, each for a city of its own:
    \* where the task stands, the tries of its backoff wrapper, what its
    \* fetch came to, and how its request in flight relates to the session
    \* ("current": made on the session the service refers to, "orphan": made
    \* on an open session the service no longer refers to, "dropped": made
    \* on a session closed since)
    taskPc,
    taskTries,
    taskGot,
    taskLink,
    \* the Readings written to the weather_records table, one per INSERT, in
    \* the order of their autoincrement ids
    rows

alertVars == <<ALERT_TEMPERATURE_THRESHOLD, CONSECUTIVE_ALERTS_REQUIRED,
               temperature_threshold, consecutive_required, alert_counts,
               evals, mail, configUpdates>>

fetchVars == <<now, cache, session, rate_limit, faults, pc,
               callCity, frames, result, hist, lastOK, evicted>>

\* WeatherService state the scheduler's tasks leave alone
serviceRest == <<cache, rate_limit, faults, pc, callCity, frames, result,
                 hist, lastOK, evicted>>

cycleVars == <<cycle, loop, wake, task, weather_records, weather_alerts,
               log, shutdown, listed, fetched, steps, cycleStart, workEnd>>

scoreVars == <<weather_records_in, utcnow, analysis, previous>>

bulkVars == <<bulk>>

sessionVars == <<sessPc, sessLog>>

cacheVars == <<cacheOps, insertedAt, usedAt>>

taskVars == <<taskPc, taskTries, taskGot, taskLink>>

rowVars == <<rows>>

\* what only the bulk fetch, the session users and the cache observer write
otherVars == <<bulkVars, sessionVars, cacheVars, taskVars, rowVars>>

vars == <<alertVars, fetchVars, cycleVars, scoreVars, otherVars>>

(* ----------------------------- AlertSystem ---------------------------- *)

\* Settings() then AlertSystem.__init__: the detector copies the two
\* settings into its own fields and starts with an empty count map.
InitAlert ==
    /\ ALERT_TEMPERATURE_THRESHOLD \in ThresholdChoices
    /\ CONSECUTIVE_ALERTS_REQUIRED \in RequiredChoices
    /\ temperature_threshold = ALERT_TEMPERATURE_THRESHOLD
    /\ consecutive_required = CONSECUTIVE_ALERTS_REQUIRED
    /\ alert_counts = << >>
    /\ evals = << >>
    /\ mail = [outcome |-> "none"]
    /\ configUpdates = 0

\* mutant: the count read is the one from before the latest increment, as
\* if a concurrent evaluation's write had not landed yet
CountOfStale(counts, city) ==
    IF city \in DOMAIN counts /\ counts[city] > 0
    THEN counts[city] - 1
    ELSE 0

\* self.alert_counts.get(city, 0)
CountOf(counts, city) ==
    IF city \in DOMAIN counts THEN counts[city] ELSE 0

\* mutant: the comparison admits a reading equal to the threshold
ExceedsOrEqual(temperature, threshold) ==
    temperature >= threshold

\* alerts.py line 13: temperature > self.temperature_threshold
Exceeds(temperature, threshold) ==
    temperature > threshold

\* mutant: the else branch (reset) is missing
NextCountNoReset(count, temperature, threshold) ==
    IF Exceeds(temperature, threshold) THEN count + 1 ELSE count

\* mutant: a reading that does not exceed takes one off the count
NextCountDecay(count, temperature, threshold) ==
    IF Exceeds(temperature, threshold) THEN count + 1 ELSE count - 1

\* alerts.py lines 13-14 and 18-19: the count after one evaluation
NextCount(count, temperature, threshold) ==
    IF Exceeds(temperature, threshold) THEN count + 1 ELSE 0

\* alerts.py lines 13-17: the alert fires when the value exceeds and the
\* updated count has reached consecutive_required (>=, so also beyond it)
Fires(count, temperature, threshold, required) ==
    /\ Exceeds(temperature, threshold)
    /\ count >= required

\* alerts.py lines 22-43: the mail is sent or the SMTP error is caught and
\* printed; either way send_alert returns normally
send_alert(city, temperature) ==
    \E outcome \in {"delivered", "failed"} :
        mail' = [city |-> city, temperature |-> temperature,
                 outcome |-> outcome]

\* mutant: a failed delivery undoes the evaluation: the count is put back
\* and the evaluation reports that no alert fired
check_temperature_alert_rollback(city, temperature) ==
    LET old == CountOf(alert_counts, city)
        new == NextCount(old, temperature, temperature_threshold)
        fired == Fires(new, temperature, temperature_threshold,
                       consecutive_required)
    IN  /\ Len(evals) < MaxEvals
        /\ \E outcome \in {"delivered", "failed"} :
            /\ mail' = IF fired
                       THEN [city |-> city, temperature |-> temperature,
                             outcome |-> outcome]
                       ELSE mail
            /\ alert_counts' = [c \in DOMAIN alert_counts \cup {city} |->
                   IF c = city
                   THEN (IF fired /\ outcome = "failed" THEN old ELSE new)
                   ELSE alert_counts[c]]
            /\ evals' = Append(evals,
                   [city |-> city, temperature |-> temperature,
                    fired |-> fired /\ outcome = "delivered"])
        /\ UNCHANGED <<ALERT_TEMPERATURE_THRESHOLD,
                       CONSECUTIVE_ALERTS_REQUIRED, temperature_threshold,
                       consecutive_required, configUpdates>>

\* mutant: one count shared by the cities: the evaluation writes the new
\* count into every entry of the map
check_temperature_alert_shared(city, temperature) ==
    LET new == NextCount(CountOf(alert_counts, city), temperature,
                         temperature_threshold)
        fired == Fires(new, temperature, temperature_threshold,
                       consecutive_required)
    IN  /\ Len(evals) < MaxEvals
        /\ alert_counts' = [c \in DOMAIN alert_counts \cup {city} |-> new]
        /\ IF fired THEN send_alert(city, temperature)
                    ELSE UNCHANGED mail
        /\ evals' = Append(evals,
               [city |-> city, temperature |-> temperature, fired |-> fired])
        /\ UNCHANGED <<ALERT_TEMPERATURE_THRESHOLD,
                       CONSECUTIVE_ALERTS_REQUIRED, temperature_threshold,
                       consecutive_required, configUpdates>>

\* alerts.py lines 12-20
check_temperature_alert(city, temperature) ==
    LET new == NextCount(CountOf(alert_counts, city), temperature,
                         temperature_threshold)
        fired == Fires(new, temperature, temperature_threshold,
                       consecutive_required)
    IN  /\ Len(evals) < MaxEvals
        /\ alert_counts' = [c \in DOMAIN alert_counts \cup {city} |->
                               IF c = city THEN new ELSE alert_counts[c]]
        /\ IF fired THEN send_alert(city, temperature)
                    ELSE UNCHANGED mail
        /\ evals' = Append(evals,
               [city |-> city, temperature |-> temperature, fired |-> fired])
        /\ UNCHANGED <<ALERT_TEMPERATURE_THRESHOLD,
                       CONSECUTIVE_ALERTS_REQUIRED, temperature_threshold,
                       consecutive_required, configUpdates>>

\* main.py lines 464-481: the endpoint assigns the two settings and touches
\* nothing of alert_system
update_alert_config(threshold, required) ==
    /\ configUpdates < MaxUpdates
    /\ ALERT_TEMPERATURE_THRESHOLD' = threshold
    /\ CONSECUTIVE_ALERTS_REQUIRED' = required
    /\ configUpdates' = configUpdates + 1
    /\ UNCHANGED <<temperature_threshold, consecutive_required,
                   alert_counts, evals, mail>>

(* ---------------------------- WeatherService -------------------------- *)

Calls == 1 .. NumCalls

\* what upstream answers to one request: a well-formed 200, a 200 whose
\* payload lacks the consumed fields, 404 (standing for every status other
\* than 200 and 429: the code has one branch for them), 429, or a
\* connection error / timeout (aiohttp.ClientError, asyncio.TimeoutError)
Outcomes == {"ok", "malformed", "404", "429", "error"}

\* weather_service.py lines 62-70: processed_data, reduced to the city and
\* the observation time upstream reports (data["dt"])
Reading(city, dt) ==
    [city |-> city, timestamp |-> dt]

\* what a call has come to: still running, returned None, returned a
\* Reading, or raised the connection error out of the backoff wrapper
Pending == [kind |-> "pending"]
ReturnedNone == [kind |-> "None"]
Raised == [kind |-> "raised"]
Returned(data) == [kind |-> "value", data |-> data]

\* WeatherService.__init__ (lines 10-16), no call started yet
InitService ==
    /\ now = 0
    /\ cache = << >>
    /\ session = "none"
    /\ rate_limit = GateCapacity
    /\ pc = [p \in Calls |-> "idle"]
    /\ callCity = [p \in Calls |-> "none"]
    /\ frames = [p \in Calls |-> << >>]
    /\ result = [p \in Calls |-> Pending]
    /\ hist = [p \in Calls |-> << >>]
    /\ lastOK = [c \in Cities |-> [seen |-> FALSE]]
    /\ evicted = [c \in Cities |-> FALSE]
    /\ faults = 0

\* mutant: an entry never expires
NotExpiredNever(entry, time) ==
    TRUE

\* TTLCache: an entry is live while timer() < link.expires
NotExpired(entry, time) ==
    time < entry.expires

\* TTLCache.__contains__ (line 46: cache_key in self.cache)
CacheContains(c, key, time) ==
    \E i \in 1 .. Len(c) : c[i].key = key /\ NotExpired(c[i], time)

\* the value stored under a key
CacheValue(c, key) ==
    LET i == CHOOSE j \in 1 .. Len(c) : c[j].key = key
    IN  c[i].value

\* mutant: reading an entry leaves the eviction order alone
CacheTouchKeep(c, key) ==
    c

\* TTLCache.__getitem__ (line 47: self.cache[cache_key]): reading an entry
\* moves it to the end of the eviction order
CacheTouch(c, key) ==
    LET i == CHOOSE j \in 1 .. Len(c) : c[j].key = key
    IN  Append(SelectSeq(c, LAMBDA e : e.key # key), c[i])

\* TTLCache.expire: drop the entries that are no longer live
CacheExpire(c, time) ==
    SelectSeq(c, LAMBDA e : NotExpired(e, time))

\* Cache.__setitem__ of a cache of capacity maxsize: while a new key does
\* not fit, popitem() drops the entry at the head of the eviction order
CacheEvictAt(c, key, maxsize) ==
    IF (\E i \in 1 .. Len(c) : c[i].key = key) \/ Len(c) + 1 <= maxsize
    THEN c
    ELSE SubSeq(c, Len(c) + 2 - maxsize, Len(c))

\* the same for the capacity of the calls explored together
CacheEvict(c, key) ==
    CacheEvictAt(c, key, MaxSize)

\* TTLCache.__setitem__ (line 72: self.cache[cache_key] = processed_data)
\* of a cache of capacity maxsize: expire, evict for capacity, then store
\* with expires = time + ttl at the end of the eviction order
CacheSetAt(c, key, value, time, maxsize) ==
    LET kept == CacheEvictAt(CacheExpire(c, time), key, maxsize)
    IN  Append(SelectSeq(kept, LAMBDA e : e.key # key),
               [key |-> key, value |-> value, expires |-> time + TTL])

\* the same for the capacity of the calls explored together
CacheSet(c, key, value, time) ==
    CacheSetAt(c, key, value, time, MaxSize)

\* the keys a cache holds
CacheKeys(c) ==
    {c[i].key : i \in 1 .. Len(c)}

\* permits a call holds: one per invocation suspended in the 429 branch
\* (inside "async with self.rate_limit", lines 57-77) and one for a request
\* in flight
Held(p) ==
    (IF frames[p] = << >> THEN 0 ELSE Len(frames[p]) - 1)
        + (IF pc[p] = "inflight" THEN 1 ELSE 0)

\* requests in flight: calls between session.get() and its response
InFlight ==
    {p \in Calls : pc[p] = "inflight"}

\* mutant: the gate never closes
GateOpenAlways(value) ==
    TRUE

\* asyncio.Semaphore: acquire() passes without waiting while the value is
\* positive
GateOpen(value) ==
    value > 0

\* mutant: a session is created only when there is none
ensure_session_if_none ==
    session' = IF session = "none" THEN "open" ELSE session

\* lines 27-34: ensure_session creates a session when there is none or it
\* is closed; session is "none" (self.session is None), "open" or "closed"
\* (a ClientSession whose closed property is False or True)
ensure_session ==
    session' = "open"

\* an invocation returns a value (a Reading or None): every enclosing
\* invocation is suspended at "return await self.get_weather_data(city)"
\* (line 77) and returns the same value, leaving its "async with" blocks,
\* so the call ends and gives back every permit it holds
Return(p, value) ==
    /\ pc' = [pc EXCEPT ![p] = "done"]
    /\ result' = [result EXCEPT ![p] = value]
    /\ frames' = [frames EXCEPT ![p] = << >>]
    /\ rate_limit' = rate_limit + Held(p)

\* lines 44-59, the function body up to the request, run by the innermost
\* invocation of a call whose stack of tries counters is stack: serve from
\* the cache, or ensure the session and enter the gate (send the request
\* when a permit is free, wait for one otherwise)
Body(p, city, stack) ==
    IF CacheContains(cache, city, now)
    THEN /\ Return(p, Returned(CacheValue(cache, city)))
         /\ cache' = CacheTouch(cache, city)
         /\ UNCHANGED session
    ELSE /\ ensure_session
         /\ frames' = [frames EXCEPT ![p] = stack]
         /\ IF GateOpen(rate_limit)
            THEN /\ rate_limit' = rate_limit - 1
                 /\ pc' = [pc EXCEPT ![p] = "inflight"]
            ELSE /\ pc' = [pc EXCEPT ![p] = "waiting"]
                 /\ UNCHANGED rate_limit
         /\ UNCHANGED <<cache, result>>

\* a caller invokes get_weather_data(city): the backoff wrapper starts its
\* first try (lines 36-43) and runs the body. The callers are
\* interchangeable and numbered in the order in which they call
Call(p, city) ==
    /\ pc[p] = "idle"
    /\ \A q \in Calls : q < p => pc[q] # "idle"
    /\ callCity' = [callCity EXCEPT ![p] = city]
    /\ Body(p, city, <<1>>)
    /\ UNCHANGED <<now, faults, hist, lastOK, evicted>>

\* the innermost invocation runs its body again: after a backoff sleep, or
\* as the recursive call that follows the Retry-After sleep (line 77)
Attempt(p) ==
    /\ pc[p] = "ready"
    /\ Body(p, callCity[p], frames[p])
    /\ UNCHANGED <<now, faults, callCity, hist, lastOK, evicted>>

\* "async with self.rate_limit" (line 57) of a waiting call gets a permit
\* and the request is sent (line 58)
Acquire(p) ==
    /\ pc[p] = "waiting"
    /\ GateOpen(rate_limit)
    /\ rate_limit' = rate_limit - 1
    /\ pc' = [pc EXCEPT ![p] = "inflight"]
    /\ UNCHANGED <<now, cache, session, faults, callCity, frames, result, hist,
                   lastOK, evicted>>

\* lines 59-73: status 200 with a well-formed payload: cache and return it
ResponseOk(p) ==
    LET city == callCity[p]
        data == Reading(city, now)
        stored == CacheSet(cache, city, data, now)
    IN  /\ pc[p] = "inflight"
        /\ hist' = [hist EXCEPT ![p] = Append(@, "ok")]
        /\ cache' = stored
        /\ lastOK' = [lastOK EXCEPT
               ![city] = [seen |-> TRUE, value |-> data, at |-> now]]
        /\ evicted' = [c \in Cities |->
               IF c = city THEN FALSE
               ELSE evicted[c] \/ ( /\ CacheContains(cache, c, now)
                                    /\ c \notin CacheKeys(stored) )]
        /\ Return(p, Returned(data))
        /\ UNCHANGED <<now, session, faults, callCity>>

\* mutant: the answer is treated like a connection error and handed to the
\* backoff wrapper
ResponseNoneRaises(p, outcome) ==
    /\ pc[p] = "inflight"
    /\ outcome \in {"404", "malformed"}
    /\ hist' = [hist EXCEPT ![p] = Append(@, outcome)]
    /\ rate_limit' = rate_limit + 1
    /\ pc' = [pc EXCEPT ![p] = "raising"]
    /\ UNCHANGED <<now, cache, session, faults, callCity, frames, result,
                   lastOK, evicted>>

\* mutant: the KeyError of a malformed payload is handed to the backoff
\* wrapper like a connection error; other statuses return None
ResponseMalformedRaises(p, outcome) ==
    /\ pc[p] = "inflight"
    /\ outcome \in {"404", "malformed"}
    /\ hist' = [hist EXCEPT ![p] = Append(@, outcome)]
    /\ IF outcome = "malformed"
       THEN /\ rate_limit' = rate_limit + 1
            /\ pc' = [pc EXCEPT ![p] = "raising"]
            /\ UNCHANGED <<frames, result>>
       ELSE Return(p, ReturnedNone)
    /\ UNCHANGED <<now, cache, session, faults, callCity, lastOK, evicted>>

\* mutant: the answer is cached like a Reading before None is returned
ResponseNoneCaching(p, outcome) ==
    /\ pc[p] = "inflight"
    /\ outcome \in {"404", "malformed"}
    /\ hist' = [hist EXCEPT ![p] = Append(@, outcome)]
    /\ cache' = CacheSet(cache, callCity[p], Reading(callCity[p], now), now)
    /\ Return(p, ReturnedNone)
    /\ UNCHANGED <<now, session, faults, callCity, lastOK, evicted>>

\* lines 78-81 (a status other than 200 and 429: print, return None) and
\* lines 60-70 with 85-87 (a 200 whose payload lacks a field raises
\* KeyError, caught by "except Exception": print, return None)
ResponseNone(p, outcome) ==
    /\ pc[p] = "inflight"
    /\ outcome \in {"404", "malformed"}
    /\ hist' = [hist EXCEPT ![p] = Append(@, outcome)]
    /\ Return(p, ReturnedNone)
    /\ UNCHANGED <<now, cache, session, faults, callCity, lastOK, evicted>>

\* lines 74-77: status 429: sleep Retry-After seconds, then call
\* self.get_weather_data(city), the decorated method, from inside both
\* "async with" blocks: the permit stays held and a new backoff wrapper
\* with its own tries counter goes on the stack
Response429(p) ==
    /\ pc[p] = "inflight"
    /\ faults < MaxFaults
    /\ faults' = faults + 1
    /\ hist' = [hist EXCEPT ![p] = Append(@, "429")]
    /\ frames' = [frames EXCEPT ![p] = Append(@, 1)]
    /\ pc' = [pc EXCEPT ![p] = "ready"]
    /\ UNCHANGED <<now, cache, session, rate_limit, callCity, result,
                   lastOK, evicted>>

\* mutant: the failed request does not give its permit back
ResponseErrorKeepsPermit(p) ==
    /\ pc[p] = "inflight"
    /\ faults < MaxFaults
    /\ faults' = faults + 1
    /\ hist' = [hist EXCEPT ![p] = Append(@, "error")]
    /\ pc' = [pc EXCEPT ![p] = "raising"]
    /\ UNCHANGED <<now, cache, session, rate_limit, callCity, frames, result,
                   lastOK, evicted>>

\* lines 58 and 82-84: the request fails with aiohttp.ClientError or
\* asyncio.TimeoutError: the gate is left, the handler prints and re-raises
\* into the backoff wrapper of the innermost invocation
ResponseError(p) ==
    /\ pc[p] = "inflight"
    /\ faults < MaxFaults
    /\ faults' = faults + 1
    /\ hist' = [hist EXCEPT ![p] = Append(@, "error")]
    /\ rate_limit' = rate_limit + 1
    /\ pc' = [pc EXCEPT ![p] = "raising"]
    /\ UNCHANGED <<now, cache, session, callCity, frames, result, lastOK,
                   evicted>>

\* backoff: another try is allowed while tries < max_tries
MayRetry(tries) ==
    tries < max_tries

\* lines 36-41, the backoff wrapper sees the exception and retries: it
\* sleeps and calls the function again
Backoff(p) ==
    LET n == Len(frames[p])
    IN  /\ pc[p] = "raising"
        /\ MayRetry(frames[p][n])
        /\ frames' = [frames EXCEPT ![p][n] = @ + 1]
        /\ pc' = [pc EXCEPT ![p] = "ready"]
        /\ UNCHANGED <<now, cache, session, rate_limit, faults, callCity, result,
                       hist, lastOK, evicted>>

\* lines 36-41, the backoff wrapper gives up and re-raises: max_tries is
\* reached, or max_time=30 s had passed when the failed try started (never
\* the case for the first try). The exception leaves the innermost
\* invocation: it reaches the caller, or the enclosing invocation at line
\* 77, where it leaves the gate, is caught at line 82 and re-raised into
\* that invocation's wrapper
GiveUp(p) ==
    LET n == Len(frames[p])
    IN  /\ pc[p] = "raising"
        /\ ~MayRetry(frames[p][n]) \/ frames[p][n] > 1
        /\ frames' = [frames EXCEPT ![p] = SubSeq(@, 1, n - 1)]
        /\ IF n = 1
           THEN /\ pc' = [pc EXCEPT ![p] = "done"]
                /\ result' = [result EXCEPT ![p] = Raised]
                /\ UNCHANGED rate_limit
           ELSE /\ rate_limit' = rate_limit + 1
                /\ UNCHANGED <<pc, result>>
        /\ UNCHANGED <<now, cache, session, faults, callCity, hist, lastOK, evicted>>

\* time passes
Tick ==
    /\ now < MaxTime
    /\ now' = now + 1
    /\ UNCHANGED <<cache, session, rate_limit, faults, pc, callCity, frames, result,
                   hist, lastOK, evicted>>

\* mutant: gather without return_exceptions: the exception of a task leaves
\* the try block before any result is kept
BulkResultsPropagating(completed) ==
    IF \E i \in 1 .. Len(completed) : completed[i].kind = "raised"
    THEN << >>
    ELSE LET kept == SelectSeq(completed, LAMBDA r : r.kind = "value")
         IN  [i \in 1 .. Len(kept) |-> kept[i].data]

\* weather_service.py lines 101-105: of what gather(*tasks,
\* return_exceptions=True) hands back, one item per task in the order of the
\* tasks, the dicts are kept; None and exception objects are skipped
BulkResults(completed) ==
    LET kept == SelectSeq(completed, LAMBDA r : r.kind = "value")
    IN  [i \in 1 .. Len(kept) |-> kept[i].data]

\* lines 89-111: get_bulk_weather_data, the calls being the tasks it made
\* for the configured cities callCity[1], callCity[2], ... in this order:
\* when the last task is done, gather returns and the list is built and
\* returned
get_bulk_weather_data ==
    /\ bulk = Pending
    /\ \A p \in Calls : pc[p] = "done"
    /\ bulk' = Returned(BulkResults([p \in Calls |-> result[p]]))
    /\ UNCHANGED fetchVars

SessionTasks == 1 .. NumTasks

\* session operations called and not yet returned
SessionBusy == {p \in SessionTasks : sessPc[p] # "idle"}

\* task p may call another session operation
MayCall(p) ==
    /\ sessPc[p] = "idle"
    /\ Len(sessLog) + Cardinality(SessionBusy) < MaxOps

\* a session operation of task p returns
SessionReturn(p, op) ==
    sessLog' = Append(sessLog, <<p, op>>)

\* lines 27-34: task p awaits ensure_session(). The lock is free whenever a
\* task reaches it, since its holder never suspends, so the call runs
\* without suspension
EnsureSession(p) ==
    /\ MayCall(p)
    /\ ensure_session
    /\ SessionReturn(p, "ensure_session")
    /\ UNCHANGED sessPc

\* lines 113-116: task p awaits close(): with an open session it calls
\* session.close(), which marks the session closed and may suspend; with
\* no session or a closed one it returns at once
CloseCall(p) ==
    /\ MayCall(p)
    /\ IF session = "open"
       THEN /\ session' = "closed"
            /\ sessPc' = [sessPc EXCEPT ![p] = "close"]
            /\ UNCHANGED sessLog
       ELSE /\ SessionReturn(p, "close")
            /\ UNCHANGED <<session, sessPc>>

\* line 117: session.close() is over: self.session = None, close() returns
CloseReturn(p) ==
    /\ sessPc[p] = "close"
    /\ session' = "none"
    /\ sessPc' = [sessPc EXCEPT ![p] = "idle"]
    /\ SessionReturn(p, "close")

\* lines 22-24: task p leaves "async with weather_service": with a session
\* object, open or closed, it calls session.close(); with none it returns
AexitCall(p) ==
    /\ MayCall(p)
    /\ IF session # "none"
       THEN /\ session' = "closed"
            /\ sessPc' = [sessPc EXCEPT ![p] = "__aexit__"]
            /\ UNCHANGED sessLog
       ELSE /\ SessionReturn(p, "__aexit__")
            /\ UNCHANGED <<session, sessPc>>

\* line 25: session.close() is over: self.session = None, __aexit__ returns
AexitReturn(p) ==
    /\ sessPc[p] = "__aexit__"
    /\ session' = "none"
    /\ sessPc' = [sessPc EXCEPT ![p] = "idle"]
    /\ SessionReturn(p, "__aexit__")

\* the cities fetched through the cache explored alone: one more than
\* its capacity
CacheCities == Cities \cup {"Chennai"}

\* capacity of the cache explored alone: TTLCache(maxsize=100) scaled down
\* to hold two of the three cities
CacheCapacity == MaxSize + 1

\* lines 46-47 of a call for a city whose entry is live: the entry is read
\* and returned
CacheHit(city) ==
    /\ cacheOps < MaxCacheOps
    /\ CacheContains(cache, city, now)
    /\ cache' = CacheTouch(cache, city)
    /\ cacheOps' = cacheOps + 1
    /\ usedAt' = [usedAt EXCEPT ![city] = cacheOps + 1]
    /\ UNCHANGED <<now, insertedAt>>

\* line 72 of a call for a city that got a well-formed 200: the Reading is
\* stored
CacheStore(city) ==
    /\ cacheOps < MaxCacheOps
    /\ cache' = CacheSetAt(cache, city, Reading(city, now), now,
                           CacheCapacity)
    /\ cacheOps' = cacheOps + 1
    /\ insertedAt' = [insertedAt EXCEPT ![city] = cacheOps + 1]
    /\ usedAt' = [usedAt EXCEPT ![city] = cacheOps + 1]
    /\ UNCHANGED now

\* time passes for the cache explored alone
CacheTick ==
    /\ now < MaxTime
    /\ now' = now + 1
    /\ UNCHANGED <<cache, cacheVars>>

\* no entry stored or read yet
InitCacheObserved ==
    /\ cacheOps = 0
    /\ insertedAt = [c \in CacheCities |-> 0]
    /\ usedAt = [c \in CacheCities |-> 0]

\* no bulk fetch
InitBulk ==
    bulk = Pending

\* no user of the session
InitSessionIdle ==
    /\ sessPc = << >>
    /\ sessLog = << >>

\* the tasks that use the session, none of them in a session operation
InitSessionTasks ==
    /\ sessPc = [p \in SessionTasks |-> "idle"]
    /\ sessLog = << >>

\* no cache operation observed
InitCacheIdle ==
    /\ cacheOps = 0
    /\ insertedAt = << >>
    /\ usedAt = << >>

CityTasks == 1 .. NumCityTasks

\* no cycle of tasks observed
InitTasksIdle ==
    /\ taskPc = << >>
    /\ taskTries = << >>
    /\ taskGot = << >>
    /\ taskLink = << >>

\* main.py lines 138-144: gather has made one fetch_city_weather task per
\* city; none has run yet
InitTasks ==
    /\ taskPc = [t \in CityTasks |-> "created"]
    /\ taskTries = [t \in CityTasks |-> 0]
    /\ taskGot = [t \in CityTasks |-> "none"]
    /\ taskLink = [t \in CityTasks |-> "none"]

\* weather_service.py lines 49-59 of task t on a cache miss: ensure_session
\* leaves an open session that the service refers to, a permit is free
\* (fewer tasks than permits) and the request is made on that session
TaskRequest(t) ==
    /\ ensure_session
    /\ taskPc' = [taskPc EXCEPT ![t] = "inflight"]
    /\ taskTries' = [taskTries EXCEPT ![t] = @ + 1]
    /\ taskLink' = [u \in CityTasks |->
           IF u = t THEN "current"
           ELSE IF session # "open" /\ taskLink[u] = "current" THEN "orphan"
           ELSE taskLink[u]]

\* main.py lines 116-118: task t starts: __aenter__ calls ensure_session,
\* get_weather_data misses the cold cache and sends its request
TaskEnter(t) ==
    /\ taskPc[t] = "created"
    /\ TaskRequest(t)
    /\ UNCHANGED taskGot

\* weather_service.py lines 22-24 as task t leaves "async with
\* weather_service": with a session object the task calls session.close(),
\* which closes the connections of the requests in flight on that session,
\* and may suspend; with none it is through
TaskExit(t) ==
    IF session # "none"
    THEN /\ session' = "closed"
         /\ taskPc' = [taskPc EXCEPT ![t] = "exiting"]
         /\ taskLink' = [u \in CityTasks |->
                IF u = t THEN "none"
                ELSE IF taskLink[u] = "current" /\ session = "open"
                THEN "dropped"
                ELSE taskLink[u]]
    ELSE /\ taskPc' = [taskPc EXCEPT ![t] = "done"]
         /\ taskLink' = [taskLink EXCEPT ![t] = "none"]
         /\ UNCHANGED session

\* every task of the gather has run up to its first suspension (the tasks
\* are started in one pass of the event loop, before any response is read)
AllStarted ==
    \A t \in CityTasks : taskPc[t] # "created"

\* weather_service.py lines 59-73 and main.py lines 119-130: the request of
\* task t is answered 200 and the answer is read (a dropped request may
\* still complete when its answer had arrived before the close): the
\* Reading is returned, stored and evaluated, awaiting the bool raises
\* TypeError, and the task leaves the "async with" block
TaskAnswered(t) ==
    /\ AllStarted
    /\ taskPc[t] = "inflight"
    /\ taskGot' = [taskGot EXCEPT ![t] = "value"]
    /\ TaskExit(t)
    /\ UNCHANGED taskTries

\* weather_service.py lines 82-84 and 36-41: the request of task t fails
\* with a ClientError because its connection was closed under it; the
\* backoff wrapper sleeps for another try, or gives up (max_tries reached,
\* or max_time passed, which cannot be on the first try) and re-raises,
\* and the task leaves the "async with" block
TaskDisconnected(t) ==
    /\ taskPc[t] = "inflight"
    /\ taskLink[t] = "dropped"
    /\ \/ /\ MayRetry(taskTries[t])
          /\ taskPc' = [taskPc EXCEPT ![t] = "backoff"]
          /\ taskLink' = [taskLink EXCEPT ![t] = "none"]
          /\ UNCHANGED <<session, taskGot>>
       \/ /\ ~MayRetry(taskTries[t]) \/ taskTries[t] > 1
          /\ taskGot' = [taskGot EXCEPT ![t] = "raised"]
          /\ TaskExit(t)
    /\ UNCHANGED taskTries

\* weather_service.py lines 42-59: the backoff sleep of task t is over and
\* get_weather_data runs again
TaskRetry(t) ==
    /\ taskPc[t] = "backoff"
    /\ TaskRequest(t)
    /\ UNCHANGED taskGot

\* weather_service.py line 25 and main.py lines 129-130: session.close()
\* is over, self.session = None, the exception is logged and the task ends
TaskExited(t) ==
    /\ taskPc[t] = "exiting"
    /\ session' = "none"
    /\ taskPc' = [taskPc EXCEPT ![t] = "done"]
    /\ taskLink' = [u \in CityTasks |->
           IF session = "open" /\ taskLink[u] = "current" THEN "orphan"
           ELSE taskLink[u]]
    /\ UNCHANGED <<taskTries, taskGot>>

\* data_processor.py line 60: create_all on an empty database
InitRows ==
    rows = << >>

\* no bulk fetch, no user of the session, no cache operation observed
InitOther ==
    /\ InitBulk
    /\ InitSessionIdle
    /\ InitCacheIdle
    /\ InitTasksIdle
    /\ InitRows

(* ------------------------------ scheduler ----------------------------- *)

\* main.py lines 107-111 and 153-157: the services are constructed, the
\* background task is created and stands at the top of its loop
InitCycle ==
    /\ cycle = 0
    /\ loop = "top"
    /\ wake = 0
    /\ task = [c \in Cities |-> "none"]
    /\ weather_records = {}
    /\ weather_alerts = {}
    /\ log = {}
    /\ shutdown = "running"
    /\ listed = "none"
    /\ fetched = [c \in Cities |-> "none"]
    /\ steps = [c \in Cities |-> << >>]
    /\ cycleStart = 0
    /\ workEnd = 0

\* mutant: the error is swallowed without a log entry
LogErrorDropped(entries, k, source) ==
    entries

\* main.py lines 130 and 147: logger.error(...)
LogError(entries, k, source) ==
    entries \cup {[cycle |-> k, source |-> source]}

\* mutant: the sleep ends one interval after the start of the cycle
\* (wall-clock slots)
SleepUntilSlot(start, end) ==
    start + UPDATE_INTERVAL

\* main.py lines 148-150: asyncio.sleep(settings.UPDATE_INTERVAL) in the
\* finally clause, begun when the cycle's work has ended
SleepUntil(start, end) ==
    end + UPDATE_INTERVAL

\* main.py lines 148-150: the finally clause of one loop iteration
Finally(start) ==
    /\ loop' = "sleeping"
    /\ wake' = SleepUntil(start, now)
    /\ workEnd' = now

\* main.py lines 134-141 (and 146-150 when get_cities raises): the loop
\* begins an iteration, at once after start-up and after each sleep:
\* get_cities returns the active cities and one fetch_city_weather task per
\* city is handed to asyncio.gather, or get_cities raises, the error is
\* logged and the loop sleeps
StartCycle ==
    /\ shutdown # "complete"
    /\ cycle < MaxCycles
    /\ \/ loop = "top"
       \/ loop = "sleeping" /\ now >= wake
    /\ cycle' = cycle + 1
    /\ cycleStart' = now
    /\ fetched' = [c \in Cities |-> "none"]
    /\ steps' = [c \in Cities |-> << >>]
    /\ \E ok \in BOOLEAN :
        IF ok
        THEN /\ listed' = "ok"
             /\ task' = [c \in Cities |-> "created"]
             /\ loop' = "gathering"
             /\ UNCHANGED <<log, wake, workEnd>>
        ELSE /\ listed' = "failed"
             /\ task' = [c \in Cities |-> "none"]
             /\ log' = LogError(log, cycle', "background task")
             /\ Finally(now)
    /\ UNCHANGED <<weather_records, weather_alerts, shutdown>>
    /\ UNCHANGED <<alertVars, fetchVars, scoreVars, otherVars>>

\* main.py lines 116-118: the task enters the shared service (__aenter__
\* calls ensure_session) and calls get_weather_data
TaskStart(c) ==
    /\ shutdown # "complete"
    /\ task[c] = "created"
    /\ task' = [task EXCEPT ![c] = "fetching"]
    /\ ensure_session
    /\ UNCHANGED <<cycle, loop, wake, weather_records, weather_alerts, log,
                   shutdown, listed, fetched, steps, cycleStart, workEnd>>
    /\ UNCHANGED <<alertVars, now, serviceRest, scoreVars, otherVars>>

\* data_processor.py lines 64-83: the record is committed, or the database
\* error is rolled back and raised again (the cycle number stands for the
\* record's timestamp)
store_weather_data(city, temperature, committed) ==
    weather_records' =
        IF committed
        THEN weather_records \cup
                 {[city |-> city, temperature |-> temperature, cycle |-> cycle]}
        ELSE weather_records

\* the operations a task carried out on a Reading when the store write was
\* committed: persist, evaluate, and notify when the evaluation fired
StepsDone(fired) ==
    <<"persist", "evaluate">> \o (IF fired THEN <<"notify">> ELSE << >>)

\* mutant: the detector is invoked before, and whatever the outcome of, the
\* store write
PipelineEvaluatesFirst(c, temperature, committed) ==
    /\ store_weather_data(c, temperature, committed)
    /\ check_temperature_alert(c, temperature)
    /\ steps' = [steps EXCEPT ![c] =
           <<"evaluate">>
               \o (IF evals'[Len(evals')].fired THEN <<"notify">> ELSE << >>)
               \o (IF committed THEN <<"persist">> ELSE <<"persist failed">>)]

\* main.py lines 119-125, for a Reading: store_weather_data, then
\* check_temperature_alert (which sends the alert itself when it fires); a
\* store write that raises leaves the try block before the detector is
\* invoked
Pipeline(c, temperature, committed) ==
    /\ store_weather_data(c, temperature, committed)
    /\ IF committed
       THEN /\ check_temperature_alert(c, temperature)
            /\ steps' = [steps EXCEPT ![c] =
                            StepsDone(evals'[Len(evals')].fired)]
       ELSE /\ steps' = [steps EXCEPT ![c] = <<"persist failed">>]
            /\ UNCHANGED alertVars

\* mutant: a task whose fetch raises takes the other tasks of the cycle
\* down with it
TaskFetchedAborting(c) ==
    /\ shutdown # "complete"
    /\ task[c] = "fetching"
    /\ fetched' = [fetched EXCEPT ![c] = "raised"]
    /\ log' = LogError(log, cycle, c)
    /\ session' = "none"
    /\ task' = [d \in Cities |-> "done"]
    /\ UNCHANGED <<alertVars, weather_records, steps>>
    /\ UNCHANGED <<cycle, loop, wake, weather_alerts, shutdown, listed,
                   cycleStart, workEnd>>
    /\ UNCHANGED <<now, serviceRest, scoreVars, otherVars>>

\* main.py lines 118-130: get_weather_data comes back to the task with a
\* Reading, with None, or by raising. A Reading is stored and evaluated;
\* the value check_temperature_alert returns is a bool, so awaiting it
\* (line 122) raises TypeError after the evaluation has taken place. Every
\* exception (the fetch's, the store's, the TypeError) leaves the "async
\* with" block, whose __aexit__ closes the shared session and sets it to
\* None, and is then logged by the except clause; the task ends normally.
TaskFetched(c) ==
    /\ shutdown # "complete"
    /\ task[c] = "fetching"
    /\ \E outcome \in {"value", "None", "raised"} :
        /\ fetched' = [fetched EXCEPT ![c] = outcome]
        /\ CASE outcome = "value" ->
                    /\ \E temperature \in Temps, committed \in BOOLEAN :
                           Pipeline(c, temperature, committed)
                    /\ log' = LogError(log, cycle, c)
             [] outcome = "None" ->
                    UNCHANGED <<alertVars, weather_records, steps, log>>
             [] outcome = "raised" ->
                    /\ log' = LogError(log, cycle, c)
                    /\ UNCHANGED <<alertVars, weather_records, steps>>
    /\ session' = "none"
    /\ task' = [task EXCEPT ![c] = "done"]
    /\ UNCHANGED <<cycle, loop, wake, weather_alerts, shutdown, listed,
                   cycleStart, workEnd>>
    /\ UNCHANGED <<now, serviceRest, scoreVars, otherVars>>

\* main.py lines 142-150: asyncio.gather(*tasks, return_exceptions=True)
\* returns when every task has ended; the finally clause sleeps
GatherDone ==
    /\ shutdown # "complete"
    /\ loop = "gathering"
    /\ \A c \in Cities : task[c] = "done"
    /\ Finally(cycleStart)
    /\ UNCHANGED <<cycle, task, weather_records, weather_alerts, log,
                   shutdown, listed, fetched, steps, cycleStart>>
    /\ UNCHANGED <<alertVars, fetchVars, scoreVars, otherVars>>

\* the server is told to stop and begins its shutdown; the handlers
\* registered with on_event("shutdown") (main.py line 159) run at its end
ShutdownSignal ==
    /\ shutdown = "running"
    /\ shutdown' = "signalled"
    /\ UNCHANGED <<cycle, loop, wake, task, weather_records, weather_alerts,
                   log, listed, fetched, steps, cycleStart, workEnd>>
    /\ UNCHANGED <<alertVars, fetchVars, scoreVars, otherVars>>

\* main.py lines 159-164: shutdown_event closes the session when there is
\* one; the process then ends. Nothing here stops the background task.
shutdown_event ==
    /\ shutdown = "signalled"
    /\ shutdown' = "complete"
    /\ session' = "none"
    /\ UNCHANGED <<cycle, loop, wake, task, weather_records, weather_alerts,
                   log, listed, fetched, steps, cycleStart, workEnd>>
    /\ UNCHANGED <<alertVars, now, serviceRest, scoreVars, otherVars>>

(* ------------------- fetches served through the cache ---------------- *)

\* weather_service.py lines 62-70: processed_data with the fields the
\* pipeline consumes: the city, the observation time upstream reports and
\* the temperature
processed_data(city, dt, temperature) ==
    [city |-> city, timestamp |-> dt, temperature |-> temperature]

\* the Readings get_weather_data can return for a city
ReadingsOf(city) ==
    {processed_data(city, dt, temperature) :
         dt \in 0 .. MaxTime, temperature \in Temps}

\* weather_service.py lines 44-73: get_weather_data(city) returns data.
\* With a live entry under the key the entry is read and returned and no
\* request is made; otherwise upstream answers a well-formed 200 with its
\* observation of this moment, which is stored in the cache and returned
Served(city, data) ==
    IF CacheContains(cache, city, now)
    THEN /\ data = CacheValue(cache, city)
         /\ cache' = CacheTouch(cache, city)
    ELSE /\ data.timestamp = now
         /\ cache' = CacheSetAt(cache, city, data, now, CacheCapacity)

\* data_processor.py lines 64-83 on the table itself: the INSERT, which
\* the database commits, adds a row, whatever rows the table holds
InsertRow(data) ==
    /\ Len(rows) < MaxRows
    /\ rows' = Append(rows, data)

\* main.py lines 118-130 of a task of the scheduler's cycle, the fetch
\* going through the cache, upstream answering 200 and the database
\* committing every write: the Reading, from the cache or from upstream,
\* is stored and evaluated (the await of line 122 then raises TypeError,
\* which is logged). __aexit__ closes the session and the task ends
TaskServed(c) ==
    /\ shutdown # "complete"
    /\ task[c] = "fetching"
    /\ \E data \in ReadingsOf(c) :
           /\ Served(c, data)
           /\ fetched' = [fetched EXCEPT ![c] = "value"]
           /\ Pipeline(c, data.temperature, TRUE)
           /\ InsertRow(data)
           /\ log' = LogError(log, cycle, c)
    /\ session' = "none"
    /\ task' = [task EXCEPT ![c] = "done"]
    /\ UNCHANGED <<cycle, loop, wake, weather_alerts, shutdown, listed,
                   cycleStart, workEnd>>
    /\ UNCHANGED <<now, rate_limit, faults, pc, callCity, frames, result,
                   hist, lastOK, evicted>>

\* main.py line 252 and lines 114-130: the background task that add_city
\* scheduled for a city that is monitored already (data_processor.add_city
\* returns silently for it) runs fetch_city_weather(c): the same pipeline,
\* outside the scheduler's cycle
BackgroundFetch(c) ==
    /\ shutdown # "complete"
    /\ \E data \in ReadingsOf(c) :
           /\ Served(c, data)
           /\ store_weather_data(c, data.temperature, TRUE)
           /\ check_temperature_alert(c, data.temperature)
           /\ InsertRow(data)
           /\ log' = LogError(log, cycle, c)
    /\ session' = "none"
    /\ UNCHANGED <<cycle, loop, wake, task, weather_alerts, shutdown, listed,
                   fetched, steps, cycleStart, workEnd>>
    /\ UNCHANGED <<now, rate_limit, faults, pc, callCity, frames, result,
                   hist, lastOK, evicted>>

(* ------------------------------- scorer ------------------------------- *)

\* conditions of the records: two of the severity table and one absent
\* from it
Conditions == {"Rain", "Clear", "Smoke"}
\* resolution of the timestamps: units of 20 minutes, so that
\* total_seconds() / 3600 yields hours that are not multiples of 0.1
UnitsPerHour == 3
\* timestamps of the records, in units: 0:00, 0:20, 1:00, 7:00 and 8:00
\* (gaps below, at and above six hours)
Hours == {0, 1, 3, 21, 24}
\* values of datetime.utcnow() during a call, in units: at the latest
\* timestamp and at the earliest (records may lie after the clock)
Clocks == {0, 24}
\* the time weights 1 / (1 + age) are whole numbers of 1 / WeightScale for
\* every age that arises from Hours and Clocks
WeightScale == 6552

None == "None"

WeatherRecords ==
    [timestamp : Hours, main_weather : Conditions]

\* data_processor.py lines 98-108 with the default of .get(..., 1)
severity_weights(condition) ==
    CASE condition = "Thunderstorm" -> 5
      [] condition = "Snow" -> 4
      [] condition = "Rain" -> 3
      [] condition = "Drizzle" -> 2
      [] condition = "Fog" -> 2
      [] OTHER -> 1

\* data_processor.py lines 117-118: 1 / (1 + time_diff), in units of
\* 1 / WeightScale, for a time_diff in units of 1 / UnitsPerHour hours;
\* time_diff is negative for a record after the clock
time_weight(time_diff) ==
    IF UnitsPerHour + time_diff > 0
    THEN (WeightScale * UnitsPerHour) \div (UnitsPerHour + time_diff)
    ELSE 0 - ((WeightScale * UnitsPerHour)
                  \div (0 - (UnitsPerHour + time_diff)))

\* weather_scores.get(condition, 0): the dict as a sequence of
\* <<condition, score>> pairs in insertion order
ScoreOf(scores, condition) ==
    IF \E i \in 1 .. Len(scores) : scores[i][1] = condition
    THEN scores[CHOOSE i \in 1 .. Len(scores) : scores[i][1] = condition][2]
    ELSE 0

\* weather_scores[condition] = value: an existing key keeps its place, a
\* new key goes to the end
ScorePut(scores, condition, value) ==
    IF \E i \in 1 .. Len(scores) : scores[i][1] = condition
    THEN [i \in 1 .. Len(scores) |->
             IF scores[i][1] = condition THEN <<condition, value>>
                                         ELSE scores[i]]
    ELSE Append(scores, <<condition, value>>)

\* data_processor.py lines 115-127: the loop over the records from the
\* i-th on; it raises ZeroDivisionError at a record exactly one hour after
\* the clock
RECURSIVE Accumulate(_, _, _, _, _)
Accumulate(records, clock, i, scores, total) ==
    IF i > Len(records)
    THEN [raised |-> FALSE, scores |-> scores, total |-> total]
    ELSE LET time_diff == clock - records[i].timestamp
             condition == records[i].main_weather
         IN  IF UnitsPerHour + time_diff = 0
             THEN [raised |-> TRUE]
             ELSE LET weight == time_weight(time_diff)
                                    * severity_weights(condition)
                  IN  Accumulate(records, clock, i + 1,
                          ScorePut(scores, condition,
                                   ScoreOf(scores, condition) + weight),
                          total + weight)

\* mutant: the last pair with the greatest score
MaxItemLast(scores) ==
    scores[CHOOSE i \in 1 .. Len(scores) :
               /\ \A j \in 1 .. Len(scores) : scores[j][2] <= scores[i][2]
               /\ \A j \in (i + 1) .. Len(scores) : scores[j][2] < scores[i][2]]

\* max(weather_scores.items(), key=lambda x: x[1]): the first pair, in
\* insertion order, with the greatest score
MaxItem(scores) ==
    scores[CHOOSE i \in 1 .. Len(scores) :
               /\ \A j \in 1 .. Len(scores) : scores[j][2] <= scores[i][2]
               /\ \A j \in 1 .. (i - 1) : scores[j][2] < scores[i][2]]

\* round(num / den) for num >= 0, den > 0, ties to the even neighbour
RoundHalfEven(num, den) ==
    LET q == num \div den
        r == num % den
    IN  IF 2 * r < den THEN q
        ELSE IF 2 * r > den THEN q + 1
        ELSE IF q % 2 = 0 THEN q ELSE q + 1

\* sorted(records, key=lambda x: x['timestamp']): stable
RECURSIVE SortedByTime(_)
SortedByTime(records) ==
    IF records = << >>
    THEN << >>
    ELSE LET n == Len(records)
             front == SortedByTime(SubSeq(records, 1, n - 1))
             last == records[n]
             k == Cardinality({i \in 1 .. Len(front) :
                                   front[i].timestamp <= last.timestamp})
         IN  SubSeq(front, 1, k) \o <<last>> \o SubSeq(front, k + 1, Len(front))

\* data_processor.py lines 158-170: the loop of
\* calculate_condition_duration from the i-th sorted record on, the
\* durations in units of 1 / UnitsPerHour hours; prev is prev_timestamp:
\* << >> for None, <<t>> for the timestamp t
RECURSIVE DurationLoop(_, _, _, _, _, _)
DurationLoop(records, condition, i, current, longest, prev) ==
    IF i > Len(records)
    THEN longest
    ELSE IF records[i].main_weather = condition
         THEN LET time_diff == IF prev = << >> THEN 0
                               ELSE records[i].timestamp - prev[1]
                  cur == IF prev = << >> THEN current
                         ELSE IF time_diff <= 6 * UnitsPerHour
                         THEN current + time_diff
                         ELSE 0
              IN  DurationLoop(records, condition, i + 1, cur,
                               IF cur > longest THEN cur ELSE longest,
                               <<records[i].timestamp>>)
         ELSE DurationLoop(records, condition, i + 1, 0, longest, << >>)

\* mutant: the duration counts the readings of the condition
calculate_condition_duration_count(records, condition) ==
    10 * Cardinality({i \in 1 .. Len(records) :
                         records[i].main_weather = condition})

\* mutant: the duration is rounded up to the next tenth of an hour
calculate_condition_duration_ceil(records, condition) ==
    IF records = << >>
    THEN 0
    ELSE LET max_duration ==
                 DurationLoop(SortedByTime(records), condition, 1, 0, 0, << >>)
         IN  (10 * max_duration + UnitsPerHour - 1) \div UnitsPerHour

\* mutant: a reading of another condition does not break the run
calculate_condition_duration_filtered(records, condition) ==
    IF records = << >>
    THEN 0
    ELSE LET own == SelectSeq(SortedByTime(records),
                              LAMBDA r : r.main_weather = condition)
         IN  RoundHalfEven(10 * DurationLoop(own, condition, 1, 0, 0, << >>),
                           UnitsPerHour)

\* data_processor.py lines 148-172; the result, round(max_duration, 1), in
\* tenths of an hour
calculate_condition_duration(records, condition) ==
    IF records = << >>
    THEN 0
    ELSE LET max_duration ==
                 DurationLoop(SortedByTime(records), condition, 1, 0, 0, << >>)
         IN  RoundHalfEven(10 * max_duration, UnitsPerHour)

ScoreValue(value) == [kind |-> "value", value |-> value]
ScoreRaised == [kind |-> "raised"]

\* data_processor.py lines 110-146: the body after the test for an empty
\* input; the confidence is in hundredths of a percent (round(..., 2)); a
\* total above 0 implies a greatest score above 0
ScoreBody(records, clock) ==
    LET acc == Accumulate(records, clock, 1, << >>, 0)
    IN  IF acc.raised
        THEN ScoreRaised
        ELSE IF acc.scores = << >>
        THEN ScoreValue([condition |-> None, confidence |-> 0,
                         duration |-> 0])
        ELSE LET dominant_weather == MaxItem(acc.scores)
                 confidence ==
                     IF acc.total > 0
                     THEN RoundHalfEven(10000 * dominant_weather[2], acc.total)
                     ELSE 0
             IN  ScoreValue(
                     [condition |-> dominant_weather[1],
                      confidence |-> confidence,
                      duration |-> calculate_condition_duration(
                                       records, dominant_weather[1]),
                      severity |-> severity_weights(dominant_weather[1])])

\* mutant: an empty input is an error
determine_dominant_weather_unguarded(records, clock) ==
    IF records = << >>
    THEN ScoreRaised
    ELSE ScoreBody(records, clock)

\* data_processor.py lines 85-146; clock is the value of datetime.utcnow()
\* the function reads at line 113
determine_dominant_weather(records, clock) ==
    IF records = << >>
    THEN ScoreValue([condition |-> None, confidence |-> 0, duration |-> 0])
    ELSE ScoreBody(records, clock)

\* sequences of at most n records
RECURSIVE RecordSeqs(_)
RecordSeqs(n) ==
    IF n = 0
    THEN {<< >>}
    ELSE LET shorter == RecordSeqs(n - 1)
         IN  shorter \cup
             {Append(r, w) : r \in {q \in shorter : Len(q) = n - 1},
                             w \in WeatherRecords}

ScorePending == [kind |-> "pending"]

\* no call of the scorer
InitScoreIdle ==
    /\ weather_records_in = << >>
    /\ utcnow = 0
    /\ analysis = ScorePending
    /\ previous = ScorePending

\* a call of determine_dominant_weather about to run
InitScore ==
    /\ weather_records_in \in RecordSeqs(MaxRecords)
    /\ utcnow \in Clocks
    /\ analysis = ScorePending
    /\ previous = ScorePending

\* the call runs
Score ==
    /\ analysis = ScorePending
    /\ analysis' = determine_dominant_weather(weather_records_in, utcnow)
    /\ UNCHANGED <<weather_records_in, utcnow, previous>>

\* a second call with the same records: the only argument of
\* determine_dominant_weather is weather_records, the clock it reads at
\* line 113 is whatever datetime.utcnow() returns during this call
ScoreAgain ==
    /\ analysis # ScorePending
    /\ previous = ScorePending
    /\ utcnow' \in Clocks
    /\ previous' = analysis
    /\ analysis' = determine_dominant_weather(weather_records_in, utcnow')
    /\ UNCHANGED weather_records_in

(* --------------------------- specifications --------------------------- *)

CheckStep ==
    /\ \E city \in Cities, temperature \in Temps :
           check_temperature_alert(city, temperature)
    /\ UNCHANGED <<fetchVars, cycleVars, scoreVars, otherVars>>

ConfigStep ==
    /\ \E threshold \in ThresholdChoices, required \in RequiredChoices :
           update_alert_config(threshold, required)
    /\ UNCHANGED <<fetchVars, cycleVars, scoreVars, otherVars>>

NextAlert ==
    \/ CheckStep
    \/ ConfigStep

\* the detector under arbitrary readings and configuration updates
InitAlertSpec ==
    /\ InitAlert
    /\ InitService
    /\ InitCycle
    /\ InitScoreIdle
    /\ InitOther

SpecAlert == InitAlertSpec /\ [][NextAlert]_vars

CallStep ==
    /\ \E p \in Calls, city \in Cities : Call(p, city)
    /\ UNCHANGED <<alertVars, cycleVars, scoreVars, otherVars>>

AttemptStep ==
    /\ \E p \in Calls : Attempt(p)
    /\ UNCHANGED <<alertVars, cycleVars, scoreVars, otherVars>>

AcquireStep ==
    /\ \E p \in Calls : Acquire(p)
    /\ UNCHANGED <<alertVars, cycleVars, scoreVars, otherVars>>

ResponseOkStep ==
    /\ \E p \in Calls : ResponseOk(p)
    /\ UNCHANGED <<alertVars, cycleVars, scoreVars, otherVars>>

ResponseNoneStep ==
    /\ \E p \in Calls, outcome \in Outcomes : ResponseNone(p, outcome)
    /\ UNCHANGED <<alertVars, cycleVars, scoreVars, otherVars>>

Response429Step ==
    /\ \E p \in Calls : Response429(p)
    /\ UNCHANGED <<alertVars, cycleVars, scoreVars, otherVars>>

ResponseErrorStep ==
    /\ \E p \in Calls : ResponseError(p)
    /\ UNCHANGED <<alertVars, cycleVars, scoreVars, otherVars>>

BackoffStep ==
    /\ \E p \in Calls : Backoff(p)
    /\ UNCHANGED <<alertVars, cycleVars, scoreVars, otherVars>>

GiveUpStep ==
    /\ \E p \in Calls : GiveUp(p)
    /\ UNCHANGED <<alertVars, cycleVars, scoreVars, otherVars>>

TickStep ==
    /\ Tick
    /\ UNCHANGED <<alertVars, cycleVars, scoreVars, otherVars>>

BulkStep ==
    /\ get_bulk_weather_data
    /\ UNCHANGED <<alertVars, cycleVars, scoreVars, sessionVars, cacheVars,
                   taskVars, rowVars>>

NextFetch ==
    \/ CallStep
    \/ AttemptStep
    \/ AcquireStep
    \/ ResponseOkStep
    \/ ResponseNoneStep
    \/ Response429Step
    \/ ResponseErrorStep
    \/ BackoffStep
    \/ GiveUpStep
    \/ TickStep
    \/ BulkStep

\* the service as constructed, the settings at their defaults (the
\* detector is not exercised)
InitFetchSpec ==
    /\ InitService
    /\ InitAlert
    /\ InitCycle
    /\ InitScoreIdle
    /\ InitOther
    /\ ALERT_TEMPERATURE_THRESHOLD = DefaultThreshold
    /\ CONSECUTIVE_ALERTS_REQUIRED = DefaultRequired

\* concurrent get_weather_data calls against a nondeterministic upstream
SpecFetch == InitFetchSpec /\ [][NextFetch]_vars


\* upstream answers a request in flight
AnswerStep ==
    \/ ResponseOkStep
    \/ ResponseNoneStep
    \/ Response429Step
    \/ ResponseErrorStep

\* the event loop runs every coroutine that can run, every sleep ends, and
\* upstream answers every request
FairFetch ==
    /\ WF_vars(CallStep)
    /\ WF_vars(AttemptStep)
    /\ WF_vars(AcquireStep)
    /\ WF_vars(AnswerStep)
    /\ WF_vars(BackoffStep)
    /\ WF_vars(GiveUpStep)
    /\ WF_vars(BulkStep)

\* the concurrent calls under a fair event loop and an upstream that
\* answers every request
SpecFetchLive == InitFetchSpec /\ [][NextFetch]_vars /\ FairFetch

StartCycleStep ==
    StartCycle

TaskStartStep ==
    \E c \in Cities : TaskStart(c)

TaskFetchedStep ==
    \E c \in Cities : TaskFetched(c)

GatherDoneStep ==
    GatherDone

ShutdownSignalStep ==
    ShutdownSignal

ShutdownEventStep ==
    shutdown_event

ClockStep ==
    /\ Tick
    /\ UNCHANGED <<alertVars, cycleVars, scoreVars, otherVars>>

NextCycle ==
    \/ StartCycleStep
    \/ TaskStartStep
    \/ TaskFetchedStep
    \/ GatherDoneStep
    \/ ShutdownSignalStep
    \/ ShutdownEventStep
    \/ ClockStep

\* the application as started, the threshold at its default
InitCycleSpec ==
    /\ InitService
    /\ InitAlert
    /\ InitCycle
    /\ InitScoreIdle
    /\ InitOther
    /\ ALERT_TEMPERATURE_THRESHOLD = DefaultThreshold
    /\ CONSECUTIVE_ALERTS_REQUIRED \in {1, DefaultRequired}

\* the scheduler's cycles over the cities
SpecCycle == InitCycleSpec /\ [][NextCycle]_vars


EnsureSessionStep ==
    /\ \E p \in SessionTasks : EnsureSession(p)
    /\ UNCHANGED <<alertVars, now, serviceRest, cycleVars, scoreVars>>
    /\ UNCHANGED <<bulkVars, cacheVars, taskVars, rowVars>>

CloseCallStep ==
    /\ \E p \in SessionTasks : CloseCall(p)
    /\ UNCHANGED <<alertVars, now, serviceRest, cycleVars, scoreVars>>
    /\ UNCHANGED <<bulkVars, cacheVars, taskVars, rowVars>>

CloseReturnStep ==
    /\ \E p \in SessionTasks : CloseReturn(p)
    /\ UNCHANGED <<alertVars, now, serviceRest, cycleVars, scoreVars>>
    /\ UNCHANGED <<bulkVars, cacheVars, taskVars, rowVars>>

AexitCallStep ==
    /\ \E p \in SessionTasks : AexitCall(p)
    /\ UNCHANGED <<alertVars, now, serviceRest, cycleVars, scoreVars>>
    /\ UNCHANGED <<bulkVars, cacheVars, taskVars, rowVars>>

AexitReturnStep ==
    /\ \E p \in SessionTasks : AexitReturn(p)
    /\ UNCHANGED <<alertVars, now, serviceRest, cycleVars, scoreVars>>
    /\ UNCHANGED <<bulkVars, cacheVars, taskVars, rowVars>>

NextSession ==
    \/ EnsureSessionStep
    \/ CloseCallStep
    \/ CloseReturnStep
    \/ AexitCallStep
    \/ AexitReturnStep

\* the service as constructed and the tasks that use its session
InitSessionSpec ==
    /\ InitService
    /\ InitAlert
    /\ InitCycle
    /\ InitScoreIdle
    /\ InitBulk
    /\ InitSessionTasks
    /\ InitCacheIdle
    /\ InitTasksIdle
    /\ InitRows
    /\ ALERT_TEMPERATURE_THRESHOLD = DefaultThreshold
    /\ CONSECUTIVE_ALERTS_REQUIRED = DefaultRequired

\* concurrent tasks opening and closing the service's session
SpecSession == InitSessionSpec /\ [][NextSession]_vars

CacheHitStep ==
    /\ \E city \in CacheCities : CacheHit(city)
    /\ UNCHANGED <<session, rate_limit, faults, pc, callCity, frames, result,
                   hist, lastOK, evicted>>
    /\ UNCHANGED <<alertVars, cycleVars, scoreVars, bulkVars, sessionVars,
                   taskVars, rowVars>>

CacheStoreStep ==
    /\ \E city \in CacheCities : CacheStore(city)
    /\ UNCHANGED <<session, rate_limit, faults, pc, callCity, frames, result,
                   hist, lastOK, evicted>>
    /\ UNCHANGED <<alertVars, cycleVars, scoreVars, bulkVars, sessionVars,
                   taskVars, rowVars>>

CacheTickStep ==
    /\ CacheTick
    /\ UNCHANGED <<session, rate_limit, faults, pc, callCity, frames, result,
                   hist, lastOK, evicted>>
    /\ UNCHANGED <<alertVars, cycleVars, scoreVars, bulkVars, sessionVars,
                   taskVars, rowVars>>

NextCache ==
    \/ CacheHitStep
    \/ CacheStoreStep
    \/ CacheTickStep

\* the service as constructed, its cache observed
InitCacheSpec ==
    /\ InitService
    /\ InitAlert
    /\ InitCycle
    /\ InitScoreIdle
    /\ InitBulk
    /\ InitSessionIdle
    /\ InitCacheObserved
    /\ InitTasksIdle
    /\ InitRows
    /\ ALERT_TEMPERATURE_THRESHOLD = DefaultThreshold
    /\ CONSECUTIVE_ALERTS_REQUIRED = DefaultRequired

\* lookups and stores of three cities in a cache that holds two
SpecCache == InitCacheSpec /\ [][NextCache]_vars

TaskEnterStep ==
    /\ \E t \in CityTasks : TaskEnter(t)
    /\ UNCHANGED <<alertVars, now, serviceRest, cycleVars, scoreVars>>
    /\ UNCHANGED <<bulkVars, sessionVars, cacheVars, rowVars>>

TaskAnsweredStep ==
    /\ \E t \in CityTasks : TaskAnswered(t)
    /\ UNCHANGED <<alertVars, now, serviceRest, cycleVars, scoreVars>>
    /\ UNCHANGED <<bulkVars, sessionVars, cacheVars, rowVars>>

TaskDisconnectedStep ==
    /\ \E t \in CityTasks : TaskDisconnected(t)
    /\ UNCHANGED <<alertVars, now, serviceRest, cycleVars, scoreVars>>
    /\ UNCHANGED <<bulkVars, sessionVars, cacheVars, rowVars>>

TaskRetryStep ==
    /\ \E t \in CityTasks : TaskRetry(t)
    /\ UNCHANGED <<alertVars, now, serviceRest, cycleVars, scoreVars>>
    /\ UNCHANGED <<bulkVars, sessionVars, cacheVars, rowVars>>

TaskExitedStep ==
    /\ \E t \in CityTasks : TaskExited(t)
    /\ UNCHANGED <<alertVars, now, serviceRest, cycleVars, scoreVars>>
    /\ UNCHANGED <<bulkVars, sessionVars, cacheVars, rowVars>>

NextTasks ==
    \/ TaskEnterStep
    \/ TaskAnsweredStep
    \/ TaskDisconnectedStep
    \/ TaskRetryStep
    \/ TaskExitedStep

\* the service as constructed and the tasks of one cycle, upstream
\* answering 200 to every request
InitTasksSpec ==
    /\ InitService
    /\ InitAlert
    /\ InitCycle
    /\ InitScoreIdle
    /\ InitBulk
    /\ InitSessionIdle
    /\ InitCacheIdle
    /\ InitTasks
    /\ InitRows
    /\ ALERT_TEMPERATURE_THRESHOLD = DefaultThreshold
    /\ CONSECUTIVE_ALERTS_REQUIRED = DefaultRequired

\* the fetch_city_weather tasks of one cycle entering and leaving the
\* shared service
SpecTasks == InitTasksSpec /\ [][NextTasks]_vars

TaskServedStep ==
    /\ \E c \in Cities : TaskServed(c)
    /\ UNCHANGED <<scoreVars, bulkVars, sessionVars, cacheVars, taskVars>>

BackgroundFetchStep ==
    /\ \E c \in Cities : BackgroundFetch(c)
    /\ UNCHANGED <<scoreVars, bulkVars, sessionVars, cacheVars, taskVars>>

NextRefetch ==
    \/ StartCycleStep
    \/ TaskStartStep
    \/ TaskServedStep
    \/ GatherDoneStep
    \/ BackgroundFetchStep
    \/ ClockStep

\* the application as started, the threshold at its default
InitRefetchSpec ==
    /\ InitService
    /\ InitAlert
    /\ InitCycle
    /\ InitScoreIdle
    /\ InitOther
    /\ ALERT_TEMPERATURE_THRESHOLD = DefaultThreshold
    /\ CONSECUTIVE_ALERTS_REQUIRED = DefaultRequired

\* the scheduler's cycles and the background fetches of add_city, every
\* fetch going through the cache, against an upstream that answers 200 and
\* a database that commits
SpecRefetch == InitRefetchSpec /\ [][NextRefetch]_vars

ScoreStep ==
    /\ Score
    /\ UNCHANGED <<alertVars, fetchVars, cycleVars, otherVars>>

ScoreAgainStep ==
    /\ ScoreAgain
    /\ UNCHANGED <<alertVars, fetchVars, cycleVars, otherVars>>

NextScore ==
    \/ ScoreStep
    \/ ScoreAgainStep

\* the scorer applied to every sequence of at most MaxRecords records
InitScoreSpec ==
    /\ InitService
    /\ InitAlert
    /\ InitCycle
    /\ InitScore
    /\ InitOther
    /\ ALERT_TEMPERATURE_THRESHOLD = DefaultThreshold
    /\ CONSECUTIVE_ALERTS_REQUIRED = DefaultRequired

SpecScore == InitScoreSpec /\ [][NextScore]_vars

(* ----------------------- claims on the AlertSystem -------------------- *)

\* the evaluations of one city, in order
CityEvals(city) ==
    SelectSeq(evals, LAMBDA e : e.city = city)

\* the readings of a sequence of evaluations
TempsOf(s) ==
    [i \in 1 .. Len(s) |-> s[i].temperature]

\* the return values of a sequence of evaluations
FiredOf(s) ==
    [i \in 1 .. Len(s) |-> s[i].fired]

\* length of the run of consecutive readings above thr that ends at s[i]
\* (0 when s[i] itself is not above thr)
RECURSIVE RunLen(_, _, _)
RunLen(s, i, thr) ==
    IF i = 0 \/ s[i].temperature <= thr
    THEN 0
    ELSE 1 + RunLen(s, i - 1, thr)

\* C1: with threshold and consecutiveRequired fixed, an evaluation fires
\* exactly when its reading is the consecutiveRequired-th of its run of
\* exceeding readings: once per breach episode, never at a later reading of
\* the same episode ([34, 36, 36, 36] at 35/2 fires at the second 36 only).
C1_FiresExactlyOncePerEpisode ==
    configUpdates = 0 =>
        \A c \in Cities :
            LET s == CityEvals(c)
            IN  \A i \in 1 .. Len(s) :
                    s[i].fired <=>
                        RunLen(s, i, ALERT_TEMPERATURE_THRESHOLD)
                            = CONSECUTIVE_ALERTS_REQUIRED

\* C2: a reading that does not exceed the threshold leaves the city's count
\* at 0 whatever it was before, every alert is preceded by a fresh run of
\* consecutiveRequired exceeding readings, and [36, 34, 36, 36] at 35/2
\* fires at the final element only.
C2_BelowThresholdResets ==
    configUpdates = 0 =>
        \A c \in Cities :
            LET s == CityEvals(c)
                n == Len(s)
            IN  /\ (n > 0 /\ s[n].temperature <= ALERT_TEMPERATURE_THRESHOLD)
                       => (c \in DOMAIN alert_counts /\ alert_counts[c] = 0)
                /\ \A i \in 1 .. n :
                       s[i].fired =>
                           RunLen(s, i, ALERT_TEMPERATURE_THRESHOLD)
                               >= CONSECUTIVE_ALERTS_REQUIRED
                /\ ( /\ ALERT_TEMPERATURE_THRESHOLD = DefaultThreshold
                     /\ CONSECUTIVE_ALERTS_REQUIRED = DefaultRequired
                     /\ TempsOf(s) = <<36, 34, 36, 36>> )
                       => FiredOf(s) = <<FALSE, FALSE, FALSE, TRUE>>

\* C2 witness: the sequence [36, 34, 36, 36] at 35/2 has been evaluated for
\* a city and its last reading fired.
C2_Witness ==
    /\ configUpdates = 0
    /\ ALERT_TEMPERATURE_THRESHOLD = DefaultThreshold
    /\ CONSECUTIVE_ALERTS_REQUIRED = DefaultRequired
    /\ \E c \in Cities :
           /\ TempsOf(CityEvals(c)) = <<36, 34, 36, 36>>
           /\ CityEvals(c)[4].fired
           /\ alert_counts[c] = 2

\* C3: check_temperature_alert returns False for a reading at or below the
\* threshold and for an exceeding reading that is fewer than the
\* consecutiveRequired-th of its run, and True for the
\* consecutiveRequired-th.
C3_ReturnValue ==
    configUpdates = 0 =>
        \A c \in Cities :
            LET s == CityEvals(c)
            IN  \A i \in 1 .. Len(s) :
                    LET run == RunLen(s, i, ALERT_TEMPERATURE_THRESHOLD)
                    IN  /\ s[i].temperature <= ALERT_TEMPERATURE_THRESHOLD
                               => ~s[i].fired
                        /\ run < CONSECUTIVE_ALERTS_REQUIRED => ~s[i].fired
                        /\ run = CONSECUTIVE_ALERTS_REQUIRED => s[i].fired

\* C3 witness: the test's sequence (below, at, above, above the threshold)
\* at 35/2 has been evaluated for a city; only the last call returned True.
C3_Witness ==
    /\ configUpdates = 0
    /\ ALERT_TEMPERATURE_THRESHOLD = DefaultThreshold
    /\ CONSECUTIVE_ALERTS_REQUIRED = DefaultRequired
    /\ \E c \in Cities :
           /\ TempsOf(CityEvals(c)) = <<34, 35, 36, 36>>
           /\ FiredOf(CityEvals(c)) = <<FALSE, FALSE, FALSE, TRUE>>

\* C4: every evaluation uses the threshold and consecutiveRequired that the
\* settings hold when it runs (also after update_alert_config changed
\* them): it resets the count exactly when the reading does not exceed the
\* current threshold, it fires only when the reading exceeds the current
\* threshold and the count has reached the current consecutiveRequired, and
\* it does fire when the count reaches the current consecutiveRequired.
C4_ReadsConfigAtEvaluation ==
    [][ Len(evals') = Len(evals) + 1 =>
            LET e == evals'[Len(evals')]
                above == e.temperature > ALERT_TEMPERATURE_THRESHOLD
                count == alert_counts'[e.city]
            IN  /\ above <=> count > 0
                /\ e.fired =>
                       (above /\ count >= CONSECUTIVE_ALERTS_REQUIRED)
                /\ (above /\ count = CONSECUTIVE_ALERTS_REQUIRED)
                       => e.fired ]_vars

\* the evaluation this step appends, if any
Evaluated ==
    Len(evals') = Len(evals) + 1

\* the value alert_counts.get(city, 0) has after this step
CountAfter(city) ==
    IF city \in DOMAIN alert_counts' THEN alert_counts'[city] ELSE 0

\* the same before this step
CountBefore(city) ==
    IF city \in DOMAIN alert_counts THEN alert_counts[city] ELSE 0

\* C28: a city's count is never negative; an evaluation of a reading above
\* the detector's threshold adds exactly 1 to the city's count, one of any
\* other reading sets it to 0, and no step lowers a count to anything but
\* 0.
C28_CountSteps ==
    /\ [](\A c \in Cities : c \in DOMAIN alert_counts => alert_counts[c] >= 0)
    /\ [][/\ Evaluated =>
               LET e == evals'[Len(evals')]
               IN  IF e.temperature > temperature_threshold
                   THEN CountAfter(e.city) = CountBefore(e.city) + 1
                   ELSE CountAfter(e.city) = 0
          /\ \A c \in Cities :
                 CountAfter(c) < CountBefore(c) => CountAfter(c) = 0]_vars

\* C28 witness: a city's count went up to 2 and was then set to 0 by a
\* reading at the threshold.
C28_Witness ==
    /\ temperature_threshold = DefaultThreshold
    /\ \E c \in Cities :
           /\ TempsOf(CityEvals(c)) = <<36, 36, 35>>
           /\ alert_counts[c] = 0

\* C29: no update of a city's count is lost, however the evaluations of
\* the cities interleave: a city's count is the number of its latest
\* evaluations in a row with a reading above the detector's threshold, so k
\* such evaluations with no other between them raise it by exactly k.
C29_NoLostUpdate ==
    \A c \in Cities :
        LET s == CityEvals(c)
        IN  (IF c \in DOMAIN alert_counts THEN alert_counts[c] ELSE 0)
                = RunLen(s, Len(s), temperature_threshold)

\* C29 witness: three evaluations of Delhi above the threshold with one of
\* Mumbai between them, and Delhi's count is 3.
C29_Witness ==
    /\ temperature_threshold = DefaultThreshold
    /\ Len(evals) = 4
    /\ evals[1].city = "Delhi"
    /\ evals[2].city = "Mumbai"
    /\ evals[3].city = "Delhi"
    /\ evals[4].city = "Delhi"
    /\ \A i \in 1 .. 4 : evals[i].temperature = DefaultThreshold + 1
    /\ alert_counts["Delhi"] = 3
    /\ alert_counts["Mumbai"] = 1

(* --------------------- claims on the WeatherService ------------------- *)

\* upstream requests a call has issued so far
Requests(p) ==
    Len(hist[p]) + (IF pc[p] = "inflight" THEN 1 ELSE 0)

\* the step in which an invocation of call p runs the function body: the
\* cache lookup and, on a miss, the way to the gate
RunsBody(p) ==
    /\ pc[p] \in {"idle", "ready"}
    /\ pc'[p] \notin {"idle", "ready"}

\* the city was fetched successfully from upstream less than TTL ago
FetchedWithinTTL(city) ==
    /\ lastOK[city].seen
    /\ now - lastOK[city].at < TTL

\* the body serves call p from the cache: it returns the most recent
\* upstream result of the city at once and issues no request
ServedFromCache(p) ==
    /\ pc'[p] = "done"
    /\ result'[p] = [kind |-> "value", data |-> lastOK[callCity'[p]].value]
    /\ hist'[p] = hist[p]
    /\ rate_limit' = rate_limit + Len(frames[p])
           - (IF frames[p] = << >> THEN 0 ELSE 1)

\* the body goes upstream: the call waits at the gate or has a request in
\* flight
GoesUpstream(p) ==
    pc'[p] \in {"waiting", "inflight"}

C6_GateBound ==
    LET suspended(p) == IF frames[p] = << >> THEN 0 ELSE Len(frames[p]) - 1
        open[S \in SUBSET Calls] ==
            IF S = {} THEN 0
            ELSE LET p == CHOOSE q \in S : TRUE
                 IN  suspended(p) + (IF pc[p] = "inflight" THEN 1 ELSE 0)
                         + open[S \ {p}]
    IN  /\ Cardinality({p \in Calls : pc[p] = "inflight"}) <= GateCapacity
        /\ open[Calls] <= GateCapacity

\* C6 witness: a fan-out of more calls than permits: N requests are in
\* flight and a further call waits at the gate.
C6_Witness ==
    /\ NumCalls > GateCapacity
    /\ Cardinality({p \in Calls : pc[p] = "inflight"}) = GateCapacity
    /\ \E p \in Calls : pc[p] = "waiting"

\* C7: a call that was answered 429 makes one further attempt and no more:
\* it issues at most one request after its first 429 (none when the
\* attempt is served from the cache), whatever that one is answered, and
\* it does not raise.
C7_OneRetryAfter429 ==
    \A p \in Calls :
        \A i \in 1 .. Len(hist[p]) :
            ( /\ hist[p][i] = "429"
              /\ \A j \in 1 .. (i - 1) : hist[p][j] # "429" )
                => /\ Requests(p) <= i + 1
                   /\ result[p].kind # "raised"

\* C8: an answer of 404 ends the call: it is the call's last answer, no
\* request follows it and the call returns None; a call whose first answer
\* is 404 has issued exactly one request.
C8_NotFoundNotRetried ==
    \A p \in Calls :
        \A i \in 1 .. Len(hist[p]) :
            hist[p][i] = "404" =>
                /\ i = Len(hist[p])
                /\ Requests(p) = i
                /\ pc[p] = "done"
                /\ result[p].kind = "None"

\* C8 witness: a call answered 404 on its first request has returned None.
C8_Witness ==
    \E p \in Calls :
        /\ hist[p] = <<"404">>
        /\ pc[p] = "done"
        /\ result[p].kind = "None"

\* C9: one fetch call issues at most 3 upstream attempts in total, and none
\* after an answer that is not a transient failure (the delayed attempt
\* that follows a 429 is allowed here; C7 is about it).
C9_AtMostThreeAttempts ==
    \A p \in Calls :
        /\ Requests(p) <= 3
        /\ \A i \in 1 .. Len(hist[p]) :
               i < Requests(p) => hist[p][i] \in {"error", "429"}

\* C10: a call whose every upstream attempt failed with a connection error
\* returns None (or the Reading another call cached meanwhile); no
\* exception propagates.
C10_ConnectionErrorReturnsNone ==
    \A p \in Calls :
        ( /\ pc[p] = "done"
          /\ hist[p] # << >>
          /\ \A i \in 1 .. Len(hist[p]) : hist[p][i] = "error" )
            => result[p].kind \in {"None", "value"}

\* C11: a 200 answer whose payload lacks the consumed fields ends the call:
\* it is the call's last answer, no request follows it (no retry), and the
\* call returns None instead of raising.
C11_MalformedReturnsNone ==
    \A p \in Calls :
        \A i \in 1 .. Len(hist[p]) :
            hist[p][i] = "malformed" =>
                /\ i = Len(hist[p])
                /\ Requests(p) = i
                /\ pc[p] = "done"
                /\ result[p].kind = "None"

\* C11 witness: a call whose only answer was a malformed 200 has returned
\* None.
C11_Witness ==
    \E p \in Calls :
        /\ hist[p] = <<"malformed">>
        /\ pc[p] = "done"
        /\ result[p].kind = "None"

\* C31 (as stated): fetches of one city that run concurrently on a cold
\* cache share one upstream request: no two calls for the same city have
\* their first request in flight at the same time.
C31_Deduplicated ==
    \A p, q \in Calls :
        ( /\ p # q
          /\ callCity[p] = callCity[q]
          /\ hist[p] = << >>
          /\ hist[q] = << >> )
            => ~(pc[p] = "inflight" /\ pc[q] = "inflight")

\* C32 (as stated): when upstream answers every request, every fetch call
\* eventually returns or raises: no call waits for a permit for ever.
C32_EveryFetchReturns ==
    <>(\A p \in Calls : pc[p] = "done")

\* permits held by a set of calls
RECURSIVE HeldBy(_)
HeldBy(S) ==
    IF S = {}
    THEN 0
    ELSE LET p == CHOOSE q \in S : TRUE
         IN  Held(p) + HeldBy(S \ {p})

\* C33: the free permits and the permits held by calls inside the gated
\* section always add up to N, and when no call is in progress (each has
\* returned or raised) all N permits are free.
C33_PermitConservation ==
    /\ rate_limit + HeldBy(Calls) = GateCapacity
    /\ rate_limit >= 0
    /\ (\A p \in Calls : pc[p] \in {"idle", "done"})
           => rate_limit = GateCapacity

\* C33 witness: every call has ended, one by raising after its retries,
\* one after an answer of 429, and all permits are free.
C33_Witness ==
    /\ \A p \in Calls : pc[p] = "done"
    /\ \E p \in Calls : result[p].kind = "raised"
    /\ \E p \in Calls : \E i \in 1 .. Len(hist[p]) : hist[p][i] = "429"
    /\ rate_limit = GateCapacity

\* C34 (as stated): a call holds at most one permit at any instant, and
\* none while it sleeps after an answer of 429 before its further attempt.
C34_OnePermitPerCall ==
    \A p \in Calls :
        /\ Held(p) <= 1
        /\ ( /\ pc[p] = "ready"
             /\ hist[p] # << >>
             /\ hist[p][Len(hist[p])] = "429" ) => Held(p) = 0

\* the entries a cache holds, whatever their eviction order
CacheEntries(c) ==
    {c[i] : i \in 1 .. Len(c)}

\* what upstream answered in this step to the request of call p, if it
\* answered
Answered(p, outcome) ==
    /\ Len(hist'[p]) = Len(hist[p]) + 1
    /\ hist'[p][Len(hist'[p])] = outcome

\* a request answered by anything but a well-formed 200 leaves the cache
\* as it was
FailureKeepsCache ==
    \A p \in Calls :
        (\E outcome \in Outcomes \ {"ok"} : Answered(p, outcome))
            => cache' = cache

\* the entries change only when a request is answered by a well-formed
\* 200, and the Reading returned is then the last entry, under the city of
\* the call
OnlySuccessStores ==
    CacheEntries(cache') # CacheEntries(cache)
        => \E p \in Calls :
               /\ Answered(p, "ok")
               /\ result'[p].kind = "value"
               /\ result'[p].data.city = callCity[p]
               /\ cache'[Len(cache')].key = callCity[p]
               /\ cache'[Len(cache')].value = result'[p].data

\* C40: only a successful fetch writes the cache. A step in which a
\* request is answered by a 404, a malformed payload, a 429 or a connection
\* error leaves the cache as it was; the entries of the cache change only
\* in a step in which a request is answered by a well-formed 200, and then
\* the Reading of that call is stored under the call's city; and every
\* entry holds under its key a Reading whose city is the key.
C40_OnlySuccessWritesCache ==
    /\ [](\A i \in 1 .. Len(cache) : cache[i].value.city = cache[i].key)
    /\ [][FailureKeepsCache /\ OnlySuccessStores]_vars

\* C40 witness: one call got a 404 or a malformed payload and returned
\* None, one raised after its connection errors, one stored its Reading,
\* and the cache holds the entry of the successful call alone.
C40_Witness ==
    \E p, q, r \in Calls :
        /\ result[p].kind = "None"
        /\ hist[p][Len(hist[p])] \in {"404", "malformed"}
        /\ result[q].kind = "raised"
        /\ result[r].kind = "value"
        /\ hist[r] = <<"ok">>
        /\ callCity[p] # callCity[r]
        /\ CacheKeys(cache) = {callCity[r]}
        /\ cache[1].value = result[r].data

(* ------------------------ claims on the scheduler --------------------- *)

\* the evaluations of a city, most recent last, and the last of them
LastEval(city) ==
    CityEvals(city)[Len(CityEvals(city))]

\* the operations of a task contain op
Did(c, op) ==
    \E i \in 1 .. Len(steps[c]) : steps[c][i] = op

\* C12: per-city failure isolation. Every task that has ended has had its
\* own fetch come to a result (no task is ended by another city's failure);
\* a task whose fetch returned a Reading (and whose store write did not
\* itself fail) has persisted the Reading in this cycle and had it
\* evaluated; the cycle's gather ends only when every task has ended, and
\* the loop is never brought down.
C12_FailureIsolation ==
    /\ \A c \in Cities :
          task[c] = "done" =>
              /\ fetched[c] # "none"
              /\ (fetched[c] = "value" /\ steps[c] # <<"persist failed">>) =>
                     /\ Did(c, "persist")
                     /\ Did(c, "evaluate")
                     /\ \E r \in weather_records :
                            r.city = c /\ r.cycle = cycle
                     /\ CityEvals(c) # << >>
    /\ (loop = "sleeping" /\ listed = "ok") =>
           \A c \in Cities : task[c] = "done"
    /\ loop \in {"top", "gathering", "sleeping"}

\* C12 witness: a cycle has ended in which one city's fetch raised (retries
\* exhausted) and another city's Reading was persisted and evaluated.
C12_Witness ==
    /\ loop = "sleeping"
    /\ listed = "ok"
    /\ \E c, d \in Cities :
          /\ fetched[c] = "raised"
          /\ fetched[d] = "value"
          /\ Did(d, "persist")
          /\ Did(d, "evaluate")

\* C13: a task persists, then evaluates, then notifies: the detector has
\* only evaluated a Reading whose record is in the store, the evaluation is
\* the task's second operation after the persist, and the notification
\* (present exactly when the evaluation fired) is the third.
C13_PersistEvaluateNotify ==
    /\ \A i \in 1 .. Len(evals) :
          \E r \in weather_records :
              r.city = evals[i].city /\ r.temperature = evals[i].temperature
    /\ \A c \in Cities :
          /\ Did(c, "evaluate") =>
                /\ steps[c][1] = "persist"
                /\ steps[c][2] = "evaluate"
                /\ [city |-> c, temperature |-> LastEval(c).temperature,
                    cycle |-> cycle] \in weather_records
                /\ Did(c, "notify") <=> LastEval(c).fired
          /\ Did(c, "notify") =>
                /\ steps[c] = <<"persist", "evaluate", "notify">>
                /\ mail.outcome \in {"delivered", "failed"}

\* C13 witness: a task has persisted a Reading, evaluated it and sent the
\* alert the evaluation raised.
C13_Witness ==
    \E c \in Cities :
        /\ steps[c] = <<"persist", "evaluate", "notify">>
        /\ LastEval(c).fired
        /\ mail.city = c

\* C14: when a cycle has ended in which an alert fired for a city, the
\* store holds an alert record for that city with the threshold value and
\* the actual value.
C14_AlertPersisted ==
    \A c \in Cities :
        (loop = "sleeping" /\ Did(c, "notify")) =>
            \E a \in weather_alerts :
                /\ a.city = c
                /\ a.threshold_value = temperature_threshold
                /\ a.actual_value = LastEval(c).temperature

\* C15: a step in which the delivery of an alert fails still records the
\* evaluation as fired, for the city of the alert, has increased the city's
\* count by one, ends the task normally and leaves the loop and the cycle
\* as they are.
C15_DeliveryFailureContained ==
    [][ ( /\ evals' # evals
          /\ mail' # mail
          /\ mail'.outcome = "failed" )
            => LET e == evals'[Len(evals')]
               IN  /\ e.fired
                   /\ e.city = mail'.city
                   /\ e.temperature = mail'.temperature
                   /\ alert_counts'[e.city] = CountOf(alert_counts, e.city) + 1
                   /\ task'[e.city] = "done"
                   /\ loop' = loop
                   /\ cycle' = cycle ]_vars

\* C15 witness: the second cycle is under way after a first cycle in which
\* the delivery of an alert failed.
C15_Witness ==
    /\ cycle = 2
    /\ loop = "gathering"
    /\ \A c \in Cities : steps[c] = << >>
    /\ mail.outcome = "failed"
    /\ \E i \in 1 .. Len(evals) : evals[i].fired /\ evals[i].city = mail.city

\* C16: cycles are sequential and spaced from the end of work: a cycle
\* starts as the next in number, and after the first only when the loop
\* sleeps, no task of the previous cycle is unfinished and one full poll
\* interval has passed since the previous cycle's work ended.
C16_SequentialSpacedCycles ==
    [][ cycle' # cycle =>
            /\ cycle' = cycle + 1
            /\ cycle >= 1 =>
                  /\ loop = "sleeping"
                  /\ \A c \in Cities : task[c] \in {"none", "done"}
                  /\ now >= workEnd + UPDATE_INTERVAL ]_vars

\* C16 witness: the first cycle's work took a tick, and the second cycle
\* started a full interval after its end (two ticks after its own start).
C16_Witness ==
    /\ cycle = 2
    /\ loop = "gathering"
    /\ workEnd = 1
    /\ cycleStart = workEnd + UPDATE_INTERVAL

\* C17: the loop survives exceptions: a get_cities failure is logged and
\* the loop sleeps one interval; a task whose fetch raises is logged, ends
\* normally and leaves the loop gathering; the loop is never brought down,
\* and whenever it sleeps the sleep ends one interval after the work.
C17_LoopSurvives ==
    /\ [][ /\ (cycle' # cycle /\ listed' = "failed") =>
                  /\ [cycle |-> cycle', source |-> "background task"] \in log'
                  /\ loop' = "sleeping"
                  /\ wake' = now + UPDATE_INTERVAL
           /\ \A c \in Cities :
                  (fetched[c] # "raised" /\ fetched'[c] = "raised") =>
                      /\ [cycle |-> cycle, source |-> c] \in log'
                      /\ task'[c] = "done"
                      /\ loop' = loop ]_vars
    /\ [](loop \in {"top", "gathering", "sleeping"})
    /\ [](loop = "sleeping" => wake = workEnd + UPDATE_INTERVAL)

\* C17 witness: a cycle has started after a cycle that ended with an
\* exception from get_cities.
C17_Witness ==
    /\ cycle = 2
    /\ loop = "gathering"
    /\ [cycle |-> 1, source |-> "background task"] \in log

\* C18: once the shutdown signal has been given the scheduler starts no new
\* cycle, and when shutdown is complete no permit is held and no session
\* is open.
C18_CooperativeShutdown ==
    /\ [][shutdown # "running" => cycle' = cycle]_vars
    /\ [](shutdown = "complete" =>
              /\ rate_limit = GateCapacity
              /\ session = "none")

\* C19: the end-to-end scenario, with the threshold T in force: when two
\* cycles have run with required = 1, the first reading A = T+1, B = T-1
\* and the second A = T-1, B = T+1, then the first cycle fired for A only,
\* the second for B only, and A's count is 0 afterwards.
C19_Scenario ==
    LET A == "Delhi"
        B == "Mumbai"
        T == temperature_threshold
        rec(c, v, k) == [city |-> c, temperature |-> v, cycle |-> k]
    IN  ( /\ consecutive_required = 1
          /\ cycle = 2
          /\ loop = "sleeping"
          /\ weather_records = {rec(A, T + 1, 1), rec(B, T - 1, 1),
                                rec(A, T - 1, 2), rec(B, T + 1, 2)} )
            => /\ TempsOf(CityEvals(A)) = <<T + 1, T - 1>>
               /\ TempsOf(CityEvals(B)) = <<T - 1, T + 1>>
               /\ FiredOf(CityEvals(A)) = <<TRUE, FALSE>>
               /\ FiredOf(CityEvals(B)) = <<FALSE, TRUE>>
               /\ alert_counts[A] = 0
               /\ alert_counts[B] = 1

\* C19 witness: the scenario has run to the end of its second cycle.
C19_Witness ==
    LET A == "Delhi"
        B == "Mumbai"
        T == temperature_threshold
    IN  /\ consecutive_required = 1
        /\ cycle = 2
        /\ loop = "sleeping"
        /\ TempsOf(CityEvals(A)) = <<T + 1, T - 1>>
        /\ TempsOf(CityEvals(B)) = <<T - 1, T + 1>>
        /\ FiredOf(CityEvals(A)) = <<TRUE, FALSE>>
        /\ FiredOf(CityEvals(B)) = <<FALSE, TRUE>>

(* -------------------------- claims on the scorer ---------------------- *)

\* C20: the scorer called with an empty sequence of records returns a null
\* dominant condition, confidence 0 and duration 0.
C20_EmptyInput ==
    (weather_records_in = << >> /\ analysis # ScorePending) =>
        /\ analysis.kind = "value"
        /\ analysis.value.condition = None
        /\ analysis.value.confidence = 0
        /\ analysis.value.duration = 0

\* C20 witness: the scorer has returned from a call with no records.
C20_Witness ==
    /\ weather_records_in = << >>
    /\ analysis.kind = "value"

\* C21: the scorer called with exactly one record, observed at or before
\* the clock, returns that record's condition with confidence 100 and
\* duration 0.
C21_SingleReading ==
    (/\ Len(weather_records_in) = 1
     /\ analysis # ScorePending
     /\ weather_records_in[1].timestamp <= utcnow) =>
        /\ analysis.kind = "value"
        /\ analysis.value.condition = weather_records_in[1].main_weather
        /\ analysis.value.confidence = 100 * 100
        /\ analysis.value.duration = 0

\* C21 witness: the scorer has returned from a call with one record of
\* Rain observed before the clock.
C21_Witness ==
    /\ Len(weather_records_in) = 1
    /\ weather_records_in[1].main_weather = "Rain"
    /\ weather_records_in[1].timestamp < utcnow
    /\ analysis.kind = "value"

\* C22 (as stated): a second call with the same records returns what the
\* first call returned, whatever the clock reads during each call.
C22_SameResult ==
    (previous # ScorePending) => (analysis = previous)

\* accumulated weight of a condition: the sum over its records of the time
\* weight times the severity weight
RECURSIVE WeightSum(_, _, _)
WeightSum(records, clock, condition) ==
    IF records = << >>
    THEN 0
    ELSE LET r == Head(records)
         IN  (IF r.main_weather = condition
              THEN time_weight(clock - r.timestamp)
                       * severity_weights(condition)
              ELSE 0)
             + WeightSum(Tail(records), clock, condition)

\* index of the first record of a condition
FirstIndex(records, condition) ==
    CHOOSE i \in 1 .. Len(records) :
        /\ records[i].main_weather = condition
        /\ \A j \in 1 .. (i - 1) : records[j].main_weather # condition

Present(records) == {records[i].main_weather : i \in 1 .. Len(records)}

\* C23: the dominant condition has the greatest accumulated weight, and
\* among the conditions with the greatest weight it is the one whose first
\* record comes first in the input.
C23_ArgmaxFirst ==
    (weather_records_in # << >> /\ analysis.kind = "value") =>
        LET c == analysis.value.condition
            sum(d) == WeightSum(weather_records_in, utcnow, d)
        IN  /\ c \in Present(weather_records_in)
            /\ \A d \in Present(weather_records_in) :
                   /\ sum(d) <= sum(c)
                   /\ (sum(d) = sum(c)) =>
                          FirstIndex(weather_records_in, c)
                              <= FirstIndex(weather_records_in, d)

\* C23 witness: two conditions share the greatest weight and the scorer has
\* returned the one that comes first in the input, here the later one in
\* alphabetical order.
C23_Witness ==
    /\ analysis.kind = "value"
    /\ Len(weather_records_in) >= 2
    /\ weather_records_in[1].main_weather = "Smoke"
    /\ analysis.value.condition = "Smoke"
    /\ "Clear" \in Present(weather_records_in)
    /\ WeightSum(weather_records_in, utcnow, "Clear")
           = WeightSum(weather_records_in, utcnow, "Smoke")

\* the timestamps of the records in time order
SortedTimes(records) ==
    [i \in 1 .. Len(records) |-> SortedByTime(records)[i].timestamp]

\* the positions whose gap to the next timestamp exceeds six hours
LongGaps(times) ==
    {i \in 1 .. (Len(times) - 1) :
         times[i + 1] - times[i] > 6 * UnitsPerHour}

OneCondition(records) ==
    /\ records # << >>
    /\ \A i \in 1 .. Len(records) :
           records[i].main_weather = records[1].main_weather

\* the span the duration is taken from when one condition is repeated:
\* first to last when no gap exceeds six hours, the longer sub-run when
\* exactly one gap does; in units of 1 / UnitsPerHour hours
RepeatedSpan(times) ==
    IF LongGaps(times) = {}
    THEN times[Len(times)] - times[1]
    ELSE LET k == CHOOSE i \in LongGaps(times) : TRUE
             left == times[k] - times[1]
             right == times[Len(times)] - times[k + 1]
         IN  IF left > right THEN left ELSE right

\* C24 (as stated): for one repeated condition the duration equals the
\* elapsed time from first to last record when every gap is at most six
\* hours, and the span of the longer sub-run when exactly one gap exceeds
\* six hours.
C24_ElapsedExact ==
    (/\ analysis.kind = "value"
     /\ OneCondition(weather_records_in)
     /\ Cardinality(LongGaps(SortedTimes(weather_records_in))) <= 1) =>
        analysis.value.duration * UnitsPerHour
            = 10 * RepeatedSpan(SortedTimes(weather_records_in))

\* C24 (amended): for one repeated condition the duration is, rounded to
\* one decimal of an hour, the elapsed time from first to last record when
\* every gap is at most six hours, and the span of the longer sub-run when
\* exactly one gap exceeds six hours.
C24_ElapsedRounded ==
    (/\ analysis.kind = "value"
     /\ OneCondition(weather_records_in)
     /\ Cardinality(LongGaps(SortedTimes(weather_records_in))) <= 1) =>
        LET span == RepeatedSpan(SortedTimes(weather_records_in))
            tenths == analysis.value.duration
        IN  /\ 2 * UnitsPerHour * tenths <= 20 * span + UnitsPerHour
            /\ 2 * UnitsPerHour * tenths >= 20 * span - UnitsPerHour

\* C24 witness: three records of one condition at 0:00, 0:20 and 8:00; the
\* one gap above six hours leaves the sub-run of 20 minutes, reported as
\* 0.3 hours.
C24_Witness ==
    /\ analysis.kind = "value"
    /\ OneCondition(weather_records_in)
    /\ SortedTimes(weather_records_in) = <<0, 1, 24>>
    /\ analysis.value.duration = 3

\* the longest elapsed span of an uninterrupted run of a condition: records
\* i to j of the time-sorted sequence, all of the condition, successive
\* ones at most six hours apart; in units of 1 / UnitsPerHour hours
LongestRun(records, condition) ==
    LET sorted == SortedByTime(records)
        run(i, j) ==
            /\ \A k \in i .. j : sorted[k].main_weather = condition
            /\ \A k \in i .. (j - 1) :
                   sorted[k + 1].timestamp - sorted[k].timestamp
                       <= 6 * UnitsPerHour
        spans == {sorted[j].timestamp - sorted[i].timestamp :
                      <<i, j>> \in {p \in (1 .. Len(sorted))
                                            \X (1 .. Len(sorted)) :
                                        p[1] <= p[2] /\ run(p[1], p[2])}}
    IN  IF spans = {} THEN 0
        ELSE CHOOSE m \in spans : \A n \in spans : n <= m

\* C25 (as stated): the duration is the longest elapsed span of a single
\* uninterrupted run of the dominant condition; a record of another
\* condition between two of its records breaks the run.
C25_LongestRunExact ==
    (analysis.kind = "value" /\ weather_records_in # << >>) =>
        analysis.value.duration * UnitsPerHour
            = 10 * LongestRun(weather_records_in, analysis.value.condition)

\* C25 (amended): the duration is, rounded to one decimal of an hour, the
\* longest elapsed span of a single uninterrupted run of the dominant
\* condition; a record of another condition between two of its records
\* breaks the run.
C25_LongestRunRounded ==
    (analysis.kind = "value" /\ weather_records_in # << >>) =>
        LET span == LongestRun(weather_records_in, analysis.value.condition)
            tenths == analysis.value.duration
        IN  /\ 2 * UnitsPerHour * tenths <= 20 * span + UnitsPerHour
            /\ 2 * UnitsPerHour * tenths >= 20 * span - UnitsPerHour

\* C25 witness: Rain at 0:00 and at 1:00 with a record of Clear between
\* them; Rain is dominant and its duration is 0.
C25_Witness ==
    /\ analysis.kind = "value"
    /\ Len(weather_records_in) = 3
    /\ LET sorted == SortedByTime(weather_records_in)
       IN  /\ sorted[1].main_weather = "Rain"
           /\ sorted[2].main_weather = "Clear"
           /\ sorted[3].main_weather = "Rain"
           /\ sorted[3].timestamp - sorted[1].timestamp = UnitsPerHour
    /\ analysis.value.condition = "Rain"
    /\ analysis.value.duration = 0

(* ------------------------ claims on the bulk fetch -------------------- *)

\* the tasks of the bulk fetch that returned a Reading
BulkOk == {p \in Calls : result[p].kind = "value"}

\* C26: get_bulk_weather_data never raises; its list holds exactly one
\* Reading for each configured city whose fetch returned one, in the order
\* of the configured list, and nothing for a city whose fetch returned None
\* or raised; when every fetch succeeds it has one entry per city.
C26_BulkResult ==
    (bulk # Pending) =>
        /\ bulk.kind = "value"
        /\ Len(bulk.data) = Cardinality(BulkOk)
        /\ \A p \in BulkOk :
               LET k == Cardinality({q \in BulkOk : q <= p})
               IN  /\ bulk.data[k] = result[p].data
                   /\ bulk.data[k].city = callCity[p]
        /\ (BulkOk = Calls) => (Len(bulk.data) = NumCalls)

\* C26 witness: the bulk fetch has returned a list of one Reading, for the
\* last city, after the fetch of one city raised and that of another
\* returned None.
C26_Witness ==
    /\ bulk # Pending
    /\ \E p, q \in Calls :
           /\ result[p].kind = "raised"
           /\ result[q].kind = "None"
    /\ result[NumCalls].kind = "value"
    /\ Len(bulk.data) = 1

\* C38: an evaluation of a reading for one city leaves every other city's
\* entry of the count map as it was, absent or with the same count, and
\* adds at most the evaluated city to the map; the map holds one count per
\* city, and a step that evaluates nothing leaves the map alone.
C38_OtherCitiesUntouched ==
    [][IF Evaluated
       THEN LET e == evals'[Len(evals')]
            IN  /\ DOMAIN alert_counts' = DOMAIN alert_counts \cup {e.city}
                /\ \A d \in DOMAIN alert_counts \ {e.city} :
                       alert_counts'[d] = alert_counts[d]
       ELSE alert_counts' = alert_counts]_vars

\* C38 witness: a city's reading at or below the threshold has just reset
\* its count while the other city keeps a streak of two.
C38_Witness ==
    /\ evals # << >>
    /\ \E c, d \in Cities :
           /\ c # d
           /\ evals[Len(evals)].city = d
           /\ ~Exceeds(evals[Len(evals)].temperature, temperature_threshold)
           /\ DOMAIN alert_counts = {c, d}
           /\ alert_counts[c] = 2
           /\ alert_counts[d] = 0

\* C39: when a task's fetch returned a Reading and its store write was
\* committed, the task runs to its end without an exception: no error is
\* logged for the city in this cycle.
C39_PipelineCompletes ==
    \A c \in Cities :
        ( /\ task[c] = "done"
          /\ fetched[c] = "value"
          /\ Did(c, "persist") )
            => [cycle |-> cycle, source |-> c] \notin log

(* ------------------------- claims on the session ---------------------- *)

\* the session operation op returns in this step
Returns(op) ==
    /\ Len(sessLog') = Len(sessLog) + 1
    /\ sessLog'[Len(sessLog')][2] = op

\* C27: when close() returns the service has no open session (none, or a
\* closed one), and when ensure_session() returns, also after a close, the
\* service has a session that is not closed.
C27_SessionManagement ==
    [][/\ Returns("close") => session' \in {"none", "closed"}
       /\ Returns("ensure_session") => session' = "open"]_vars

\* C27 witness: a task has opened the session, closed it and called
\* ensure_session again, and the session is open.
C27_Witness ==
    /\ Len(sessLog) = 3
    /\ sessLog[1] = <<1, "ensure_session">>
    /\ sessLog[2] = <<1, "close">>
    /\ sessLog[3] = <<1, "ensure_session">>
    /\ session = "open"

\* C36: no session is leaked: the service never drops its reference to a
\* session that is still open, so a close() or an __aexit__ that resumes
\* after its session.close() never overwrites with None a session that
\* ensure_session created meanwhile.
C36_NoSessionLeak ==
    [][session = "open" => session' # "none"]_vars

(* -------------------------- claims on the cache ----------------------- *)

\* this step stores a new key in a cache that is full of live entries
StoresIntoFull ==
    /\ Len(cache) = CacheCapacity
    /\ CacheExpire(cache, now) = cache
    /\ CacheKeys(cache') # CacheKeys(cache)

\* the keys this step drops from the cache
Dropped == CacheKeys(cache) \ CacheKeys(cache')

\* C30 (as stated): the cache never holds more entries than its capacity,
\* and a store into a cache full of live entries evicts the entry inserted
\* earliest, also when that entry was read after a newer one was inserted.
C30_EvictsEarliestInserted ==
    [][/\ Len(cache') <= CacheCapacity
       /\ StoresIntoFull =>
              \E k \in CacheKeys(cache) :
                  /\ Dropped = {k}
                  /\ \A j \in CacheKeys(cache) :
                         insertedAt[k] <= insertedAt[j]]_vars

\* C30 (amended): the cache never holds more entries than its capacity,
\* and a store into a cache full of live entries evicts the entry whose
\* latest use, its insertion or its latest read, is the earliest.
C30_EvictsLeastRecentlyUsed ==
    [][/\ Len(cache') <= CacheCapacity
       /\ StoresIntoFull =>
              \E k \in CacheKeys(cache) :
                  /\ Dropped = {k}
                  /\ \A j \in CacheKeys(cache) :
                         usedAt[k] <= usedAt[j]]_vars

\* C30 witness: Delhi was stored, then Mumbai, then Delhi was read, then
\* Chennai was stored, all within the TTL: the cache holds Delhi and
\* Chennai.
C30_Witness ==
    /\ cacheOps = 4
    /\ now = 0
    /\ insertedAt = [c \in CacheCities |->
                        CASE c = "Delhi" -> 1
                          [] c = "Mumbai" -> 2
                          [] OTHER -> 4]
    /\ usedAt["Delhi"] = 3
    /\ CacheKeys(cache) = {"Delhi", "Chennai"}

(* --------------------- claims on the tasks of a cycle ----------------- *)

\* C35 (as stated): a task whose city upstream answers with 200 obtains
\* its Reading, whatever the order in which the other tasks finish and
\* leave the shared service: no task ends with a fetch that raised.
C35_TasksUndisturbed ==
    \A t \in CityTasks :
        taskPc[t] \in {"exiting", "done"} => taskGot[t] = "value"

(* ------------- claims on fetches served through the cache ------------- *)

\* the rows of the table that hold the Reading data
RowsOf(data) ==
    {i \in 1 .. Len(rows) : rows[i] = data}

\* C37: each upstream observation is persisted at most once and advances
\* its city's streak at most once: no two rows of the table hold the same
\* Reading, and the detector has evaluated no more Readings of a city than
\* upstream observations of the city were stored.
C37_ObservationCountedOnce ==
    /\ \A i \in 1 .. Len(rows) : RowsOf(rows[i]) = {i}
    /\ \A c \in Cities :
           Len(CityEvals(c))
               <= Cardinality({rows[i] : i \in 1 .. Len(rows)}
                                  \cap ReadingsOf(c))

====
